---- MODULE Spec2Model ----
(***************************************************************************)
(* Feature-derivation and waste-risk scoring pipeline of the retail        *)
(* demand repository.  Two implementations live side by side:              *)
(*   src/src/feature_engineering.py, src/src/waste_predictor.py  (used by  *)
(*   src/src/app.py) and the top-level src/feature_engineering.py,         *)
(*   src/waste_predictor.py.  Definitions of the top-level files carry     *)
(*   the suffix _top.                                                      *)
(*                                                                         *)
(* Real-valued cells are fixed-point integers with Decimals decimal        *)
(* places (the ledger stores values rounded to two decimals); a float      *)
(* operation is modelled by the exact rational result rounded half up to   *)
(* that resolution.  NaN is the missing-value marker of a table cell.      *)
(***************************************************************************)
EXTENDS Integers, Sequences, FiniteSets, TLC

Decimals == 2
FP == 10 ^ Decimals
EpsInv == 1000000
EpsScale == EpsInv \div FP
NaN == -999999999

IsNaN(x) == x = NaN
Abs(x) == IF x < 0 THEN -x ELSE x
Max2(a, b) == IF a >= b THEN a ELSE b
Min2(a, b) == IF a <= b THEN a ELSE b

(* ---------- fixed-point arithmetic ---------- *)

RECURSIVE ScaledDivRem(_, _, _)
\* <<floor(a * 10^k / d), remainder>> for a >= 0, d > 0, without forming a * 10^k
ScaledDivRem(a, d, k) ==
    IF k = 0 THEN <<a \div d, a % d>>
    ELSE LET rest == ScaledDivRem((a % d) * 10, d, k - 1)
         IN  <<(a \div d) * (10 ^ k) + rest[1], rest[2]>>

\* n * 10^k / d rounded half away from zero to a whole number (d > 0)
RoundDivK(n, d, k) ==
    LET qr == ScaledDivRem(Abs(n), d, k)
        q  == IF 2 * qr[2] >= d THEN qr[1] + 1 ELSE qr[1]
    IN  IF n < 0 THEN -q ELSE q

\* the pure number n * 10^k / d as a fixed-point value
FixDivK(n, d, k) == RoundDivK(n, d, k + Decimals)
FixDiv(n, d) == FixDivK(n, d, 0)

\* float division n / d of numpy: a zero divisor gives inf or nan, never an
\* exception
Inf == 999999998
NpDiv(n, d) ==
    IF d = 0 THEN (IF n = 0 THEN NaN ELSE IF n > 0 THEN Inf ELSE -Inf)
    ELSE IF d < 0 THEN FixDiv(-n, -d) ELSE FixDiv(n, d)

\* x / (y + 1e-6) for fixed-point x, y: numerator and denominator of the
\* exact quotient (a pure number)
EpsNum(x) == x * EpsScale
EpsDen_no_eps(y) == y * EpsScale
EpsDen(y) == y * EpsScale + 1

IsFinite(x) == x # NaN /\ x # Inf /\ x # -Inf

RECURSIVE ISqrtBetween(_, _, _)
\* floor(sqrt(v)) by bisection on lo..hi
ISqrtBetween(v, lo, hi) ==
    IF lo >= hi THEN lo
    ELSE LET mid == (lo + hi + 1) \div 2
         IN  IF mid * mid <= v THEN ISqrtBetween(v, mid, hi)
             ELSE ISqrtBetween(v, lo, mid - 1)

ISqrt(v) == ISqrtBetween(v, 0, 46340)

\* np.clip(x, lo, hi); NaN stays NaN
Clip(x, lo, hi) == IF IsNaN(x) THEN NaN ELSE IF x < lo THEN lo ELSE IF x > hi THEN hi ELSE x

\* np.clip(a * 10^k / d, 0, 100) as a fixed-point cell (d > 0, k <= 2); the
\* clamp is decided on the exact quotient before it is rounded
Clip100Div(a, d, k) ==
    IF a <= 0 THEN 0
    ELSE IF (a \div d) >= 10 ^ (2 - k) THEN 100 * FP
    ELSE FixDivK(a, d, k)

(* ---------- tables: a table is a sequence of rows, a row a record ---------- *)

Columns(df) == IF df = <<>> THEN {} ELSE DOMAIN df[1]

RECURSIVE BuildRows(_, _)
\* the table <<F(1), .., F(n)>>
BuildRows(F(_), n) == IF n = 0 THEN <<>> ELSE Append(BuildRows(F, n - 1), F(n))
AddCol(r, c, v) == (c :> v) @@ r
Products == <<"Apples", "Bread", "Ice Cream">>
ProductRank(p) == CHOOSE k \in 1..Len(Products) : Products[k] = p

\* df.copy()
Copy(df) == df

KeyLess_no_date(a, b) ==
    \/ a.store_id < b.store_id
    \/ a.store_id = b.store_id /\ ProductRank(a.product) < ProductRank(b.product)
KeyLess(a, b) ==
    \/ a.store_id < b.store_id
    \/ a.store_id = b.store_id /\ ProductRank(a.product) < ProductRank(b.product)
    \/ a.store_id = b.store_id /\ a.product = b.product /\ a.date < b.date

RECURSIVE SortInsert(_, _)
SortInsert(s, r) ==
    IF s = <<>> THEN <<r>>
    ELSE IF KeyLess(r, Head(s)) THEN <<r>> \o s
    ELSE <<Head(s)>> \o SortInsert(Tail(s), r)

sort_values_keeps_order(df) == df
RECURSIVE sort_values(_)
\* df.sort_values(['store_id', 'product', 'date']): stable, ascending
sort_values(df) ==
    IF df = <<>> THEN <<>>
    ELSE SortInsert(sort_values(SubSeq(df, 1, Len(df) - 1)), df[Len(df)])

SameGroup_store_only(a, b) == a.store_id = b.store_id
SameGroup(a, b) == a.store_id = b.store_id /\ a.product = b.product

RECURSIVE WindowVals(_, _, _, _, _)
\* the values of col in the last `left` rows of row i's group at or before
\* position j, in the table's current row order (groupby(...)[col] then
\* rolling(window)); NaN observations are skipped by the window's count
WindowVals(df, col, i, j, left) ==
    IF j = 0 \/ left = 0 THEN <<>>
    ELSE IF SameGroup(df[j], df[i])
         THEN (IF IsNaN(df[j][col]) THEN <<>> ELSE <<df[j][col]>>)
              \o WindowVals(df, col, i, j - 1, left - 1)
         ELSE WindowVals(df, col, i, j - 1, left)

RECURSIVE SeqSum(_)
SeqSum(s) == IF s = <<>> THEN 0 ELSE Head(s) + SeqSum(Tail(s))
RECURSIVE SeqSumSq(_)
SeqSumSq(s) == IF s = <<>> THEN 0 ELSE Head(s) * Head(s) + SeqSumSq(Tail(s))

\* Series.mean() / rolling(...).mean() with min_periods = 1
Mean(vals) == IF Len(vals) < 1 THEN NaN ELSE RoundDivK(SeqSum(vals), Len(vals), 0)

\* Series.std() / rolling(...).std(): sample standard deviation (ddof = 1),
\* missing below two observations
Std(vals) ==
    LET n   == Len(vals)
        num == n * SeqSumSq(vals) - SeqSum(vals) * SeqSum(vals)
        den == n * (n - 1)
    IN  IF n < 2 THEN NaN
        ELSE (ISqrt(4 * (num \div den) + (4 * (num % den)) \div den) + 1) \div 2

rolling_mean_half_window(df, col, i, window) ==
    Mean(WindowVals(df, col, i, i, (window + 1) \div 2))
rolling_mean(df, col, i, window) == Mean(WindowVals(df, col, i, i, window))
rolling_std(df, col, i, window) == Std(WindowVals(df, col, i, i, window))

\* DataFrame.fillna(0): every missing cell of every column becomes 0
StringCols == {"product", "category", "risk_level"}
RECURSIVE FillRow(_, _)
FillRow(r, cols) ==
    IF cols = {} THEN r
    ELSE LET c == CHOOSE x \in cols : TRUE
         IN  FillRow(IF c \notin StringCols /\ IsNaN(r[c]) THEN (c :> 0) @@ r ELSE r,
                     cols \ {c})
fillna0_identity(df) == df
fillna0(df) == BuildRows(LAMBDA i : FillRow(df[i], DOMAIN df[i]), Len(df))

(* ---------- calendar ---------- *)

\* dates are day ordinals of one year; day 1 is a Monday, 1 January
DaysBeforeMonth == <<0, 31, 59, 90, 120, 151, 181, 212, 243, 273, 304, 334>>
\* Series.dt.month
MonthOf(d) == CHOOSE m \in 1..12 :
    /\ DaysBeforeMonth[m] < d
    /\ (m = 12 \/ d <= DaysBeforeMonth[m + 1])
\* Series.dt.dayofweek: 0 = Monday .. 6 = Sunday
DayOfWeek(d) == (d - 1) % 7
\* Series.dt.dayofyear, Series.dt.isocalendar().week
DayOfYear(d) == d
WeekOfYear(d) == (d - 1) \div 7 + 1

\* np.sin / np.cos of 2 * pi * k / 7 and 2 * pi * m / 12, to Decimals places
Sin7  == <<0, 78, 97, 43, -43, -97, -78>>
Cos7  == <<100, 62, -22, -90, -90, -22, 62>>
Sin12 == <<50, 87, 100, 87, 50, 0, -50, -87, -100, -87, -50, 0>>
Cos12 == <<87, 50, 0, -50, -87, -100, -87, -50, 0, 50, 87, 100>>
DaySin(k) == IF k \in 0..6 THEN Sin7[k + 1] ELSE NaN
DayCos(k) == IF k \in 0..6 THEN Cos7[k + 1] ELSE NaN
MonthSin(m) == IF m \in 1..12 THEN Sin12[m] ELSE NaN
MonthCos(m) == IF m \in 1..12 THEN Cos12[m] ELSE NaN

\* (df['day_of_week'] >= 5).astype(int): a comparison with NaN is False
IsWeekend(k) == IF ~IsNaN(k) /\ k >= 5 THEN 1 ELSE 0

(* ---------- src/src/feature_engineering.py ---------- *)

Windows == <<7, 14>>
Windows_top == <<7, 14, 30>>
WindowsOf(im) == IF im = "src" THEN Windows ELSE Windows_top

SalesMeanCol(w) ==
    CASE w = 7 -> "sales_rolling_mean_7d" [] w = 14 -> "sales_rolling_mean_14d"
      [] w = 30 -> "sales_rolling_mean_30d"
SalesStdCol(w) ==
    CASE w = 7 -> "sales_rolling_std_7d" [] w = 14 -> "sales_rolling_std_14d"
      [] w = 30 -> "sales_rolling_std_30d"
WasteMeanCol(w) ==
    CASE w = 7 -> "waste_rolling_mean_7d" [] w = 14 -> "waste_rolling_mean_14d"
      [] w = 30 -> "waste_rolling_mean_30d"

create_temporal_features(df) ==
    BuildRows(LAMBDA i :
        LET dow == DayOfWeek(df[i].date)
            mon == MonthOf(df[i].date)
        IN  [day_of_week |-> dow, month |-> mon, is_weekend |-> IsWeekend(dow),
             day_sin |-> DaySin(dow), day_cos |-> DayCos(dow),
             month_sin |-> MonthSin(mon), month_cos |-> MonthCos(mon)] @@ df[i], Len(df))

\* the three rolling columns of one window, computed on the table's current
\* row order
AddRolling(df, w) ==
    BuildRows(LAMBDA i :
        (SalesMeanCol(w) :> rolling_mean(df, "sales", i, w))
        @@ (SalesStdCol(w) :> rolling_std(df, "sales", i, w))
        @@ (WasteMeanCol(w) :> rolling_mean(df, "waste", i, w))
        @@ df[i], Len(df))

RECURSIVE ApplyWindows(_, _)
ApplyWindows(df, windows) ==
    IF windows = <<>> THEN df
    ELSE ApplyWindows(AddRolling(df, Head(windows)), Tail(windows))

create_rolling_features(df) == fillna0(ApplyWindows(sort_values(df), Windows))

\* the columns create_ratio_features adds to one row
RatioCols(r, hasMean7) ==
    LET base == [sales_stock_ratio |-> NpDiv(EpsNum(r.sales), EpsDen(r.stock)),
                 waste_efficiency  |->
                     LET q == NpDiv(EpsNum(r.waste), EpsDen(r.stock))
                     IN  IF IsFinite(q) THEN FP - q ELSE IF q = Inf THEN -Inf ELSE q]
    IN  IF hasMean7
        THEN ("sales_deviation_7d" :>
                 NpDiv(EpsNum(r.sales - r.sales_rolling_mean_7d),
                       EpsDen(r.sales_rolling_std_7d))) @@ base
        ELSE base

create_ratio_features(df) ==
    BuildRows(LAMBDA i :
        RatioCols(df[i], "sales_rolling_mean_7d" \in Columns(df)) @@ df[i], Len(df))

\* the values of col over the rows of df that agree with row r on key
\* (groupby(key)[col]), in row order
RECURSIVE GroupVals_within_store(_, _, _, _)
GroupVals_within_store(df, key, r, col) ==
    IF df = <<>> THEN <<>>
    ELSE (IF Head(df)[key] = r[key] /\ Head(df).store_id = r.store_id
             /\ ~IsNaN(Head(df)[col])
          THEN <<Head(df)[col]>> ELSE <<>>)
         \o GroupVals_within_store(Tail(df), key, r, col)
RECURSIVE GroupVals(_, _, _, _)
GroupVals(df, key, r, col) ==
    IF df = <<>> THEN <<>>
    ELSE (IF Head(df)[key] = r[key] /\ ~IsNaN(Head(df)[col])
          THEN <<Head(df)[col]>> ELSE <<>>)
         \o GroupVals(Tail(df), key, r, col)

RECURSIVE JoinOnKey(_, _)
\* the first k rows of df joined with df on (store_id, product, date): one
\* row for every row of equal key
JoinOnKey(df, k) ==
    IF k = 0 THEN <<>>
    ELSE JoinOnKey(df, k - 1)
         \o BuildRows(LAMBDA j : df[k],
                      Cardinality({j \in 1..Len(df) :
                                      /\ df[j].store_id = df[k].store_id
                                      /\ df[j].product = df[k].product
                                      /\ df[j].date = df[k].date}))
create_aggregate_features_key_join(df) ==
    LET J == JoinOnKey(df, Len(df))
    IN  BuildRows(LAMBDA i :
            [prod_sales_mean  |-> Mean(GroupVals(J, "product", J[i], "sales")),
             prod_sales_std   |-> Std(GroupVals(J, "product", J[i], "sales")),
             prod_waste_mean  |-> Mean(GroupVals(J, "product", J[i], "waste_percentage")),
             store_sales_mean |-> Mean(GroupVals(J, "store_id", J[i], "sales")),
             store_waste_mean |-> Mean(GroupVals(J, "store_id", J[i], "waste_percentage"))]
            @@ J[i], Len(J))
create_aggregate_features(df) ==
    BuildRows(LAMBDA i :
        [prod_sales_mean  |-> Mean(GroupVals(df, "product", df[i], "sales")),
         prod_sales_std   |-> Std(GroupVals(df, "product", df[i], "sales")),
         prod_waste_mean  |-> Mean(GroupVals(df, "product", df[i], "waste_percentage")),
         store_sales_mean |-> Mean(GroupVals(df, "store_id", df[i], "sales")),
         store_waste_mean |-> Mean(GroupVals(df, "store_id", df[i], "waste_percentage"))]
        @@ df[i], Len(df))

engineer_features_no_aggregate(df) ==
    IF df = <<>> THEN df
    ELSE create_ratio_features(
             create_rolling_features(
                 create_temporal_features(Copy(df))))
engineer_features(df) ==
    IF df = <<>> THEN df
    ELSE create_aggregate_features(
             create_ratio_features(
                 create_rolling_features(
                     create_temporal_features(Copy(df)))))

get_feature_columns_product_names ==
    <<"sales", "stock", "waste", "waste_percentage", "price",
      "day_of_week", "is_weekend", "day_sin", "day_cos",
      "month_sin", "month_cos", "shelf_life_days",
      "sales_rolling_mean_7d", "sales_rolling_std_7d",
      "sales_rolling_mean_14d", "sales_rolling_std_14d",
      "waste_rolling_mean_7d", "sales_stock_ratio",
      "sales_deviation_7d", "waste_efficiency",
      "product_sales_mean", "product_sales_std", "product_waste_mean",
      "store_sales_mean", "store_waste_mean">>
get_feature_columns ==
    <<"sales", "stock", "waste", "waste_percentage", "price",
      "day_of_week", "is_weekend", "day_sin", "day_cos",
      "month_sin", "month_cos", "shelf_life_days",
      "sales_rolling_mean_7d", "sales_rolling_std_7d",
      "sales_rolling_mean_14d", "sales_rolling_std_14d",
      "waste_rolling_mean_7d", "sales_stock_ratio",
      "sales_deviation_7d", "waste_efficiency",
      "prod_sales_mean", "prod_sales_std", "prod_waste_mean",
      "store_sales_mean", "store_waste_mean">>

(* ---------- src/feature_engineering.py ---------- *)

create_temporal_features_top(df) ==
    BuildRows(LAMBDA i :
        LET dow == df[i].day_of_week
            mon == MonthOf(df[i].date)
        IN  [day_of_year |-> DayOfYear(df[i].date),
             week_of_year |-> WeekOfYear(df[i].date),
             month |-> mon, is_weekend |-> IsWeekend(dow),
             day_sin |-> DaySin(dow), day_cos |-> DayCos(dow),
             month_sin |-> MonthSin(mon), month_cos |-> MonthCos(mon)] @@ Copy(df)[i], Len(df))

create_rolling_features_top(df) ==
    fillna0(ApplyWindows(sort_values(Copy(df)), Windows_top))

create_ratio_features_top(df) ==
    BuildRows(LAMBDA i :
        RatioCols(df[i], "sales_rolling_mean_7d" \in Columns(df)) @@ Copy(df)[i], Len(df))

create_aggregate_features_top(df) ==
    BuildRows(LAMBDA i :
        [product_sales_mean |-> Mean(GroupVals(df, "product", df[i], "sales")),
         product_sales_std  |-> Std(GroupVals(df, "product", df[i], "sales")),
         product_waste_mean |-> Mean(GroupVals(df, "product", df[i], "waste_percentage")),
         store_sales_mean   |-> Mean(GroupVals(df, "store_id", df[i], "sales")),
         store_waste_mean   |-> Mean(GroupVals(df, "store_id", df[i], "waste_percentage"))]
        @@ Copy(df)[i], Len(df))

engineer_features_top(df) ==
    create_aggregate_features_top(
        create_ratio_features_top(
            create_rolling_features_top(
                create_temporal_features_top(df))))

get_feature_columns_top ==
    <<"sales", "stock", "waste", "waste_percentage", "price",
      "day_of_week", "is_weekend", "day_sin", "day_cos",
      "month_sin", "month_cos", "shelf_life_days",
      "sales_rolling_mean_7d", "sales_rolling_std_7d",
      "sales_rolling_mean_14d", "sales_rolling_std_14d",
      "waste_rolling_mean_7d", "waste_rolling_mean_14d",
      "sales_stock_ratio", "sales_deviation_7d", "waste_efficiency",
      "product_sales_mean", "product_sales_std", "product_waste_mean",
      "store_sales_mean", "store_waste_mean">>

(* ---------- risk scoring ---------- *)

\* a score cell holds a fixed-point value; waste_risk_score is the sum of
\* products of two fixed-point values (score * weight) and is kept exact at
\* twice the places: one unit of it is 1 / (FP * FP)
Score(x) == x * FP * FP

NoLevel == "nan"
RECURSIVE cut_left_closed(_, _, _)
cut_left_closed(x, bs, labels) ==
    IF IsNaN(x) \/ Len(bs) < 2 THEN NoLevel
    ELSE IF bs[1] <= x /\ x < bs[2] THEN labels[1]
    ELSE cut_left_closed(x, Tail(bs), Tail(labels))

RECURSIVE cut(_, _, _)
\* pd.cut(x, bins, labels): bins are right-closed, the lowest edge is
\* excluded; a value outside every bin, or NaN, gets the missing label
cut(x, bs, labels) ==
    IF IsNaN(x) \/ Len(bs) < 2 THEN NoLevel
    ELSE IF bs[1] < x /\ x <= bs[2] THEN labels[1]
    ELSE cut(x, Tail(bs), Tail(labels))

Labels == <<"Low", "Medium", "High">>
WeightedSum(scores, weights) ==
    IF \E k \in DOMAIN scores : IsNaN(scores[k]) THEN NaN
    ELSE SeqSum([k \in DOMAIN scores |-> scores[k] * weights[k]])

\* ----- src/src/waste_predictor.py -----

\* self.weights, as fixed-point values in the order current_waste,
\* historical_waste, sales_trend, stock_level, perishability
weights == <<30, 20, 20, 20, 10>>
bins_zero_edge == <<Score(0), Score(30), Score(60), Score(100)>>
bins == <<Score(-1), Score(30), Score(60), Score(101)>>

score_current(r) == Clip(r.waste_percentage, 0, 100 * FP)
score_hist(r, cols) ==
    IF "waste_rolling_mean_14d" \in cols
    THEN Clip100Div(5 * EpsNum(r.waste_rolling_mean_14d), EpsDen(r.stock), 2)
    ELSE 0
score_trend_unclipped(r, cols) ==
    IF "sales_rolling_mean_7d" \in cols
    THEN (r.sales_rolling_mean_7d - r.sales_rolling_mean_14d) * (-200)
    ELSE 0
score_trend(r, cols) ==
    IF "sales_rolling_mean_7d" \in cols
    THEN Clip((r.sales_rolling_mean_7d - r.sales_rolling_mean_14d) * (-200), 0, 100 * FP)
    ELSE 0
score_stock(r, cols) ==
    IF "sales_rolling_mean_7d" \in cols
    THEN Clip100Div(5 * (EpsNum(r.stock) - EpsDen(r.sales_rolling_mean_7d)),
                    EpsDen(r.sales_rolling_mean_7d), 1)
    ELSE 0

\* the columns calculate_risk adds to one row
RiskCols(r, cols, self_weights) ==
    LET sc == score_current(r)
        sh == score_hist(r, cols)
        st == score_trend(r, cols)
        ss == score_stock(r, cols)
        \* df['perishable'] * 100
        sp == IF IsNaN(r.perishable) THEN NaN ELSE r.perishable * 100 * FP
        total == WeightedSum(<<sc, sh, st, ss, sp>>, self_weights)
    IN  [score_current |-> sc, score_hist |-> sh, score_trend |-> st,
         score_stock |-> ss, waste_risk_score |-> total,
         risk_level |-> cut(total, bins, Labels)]

calculate_risk(df, self_weights) ==
    BuildRows(LAMBDA i : RiskCols(df[i], Columns(df), self_weights) @@ Copy(df)[i], Len(df))

\* ----- src/waste_predictor.py -----

\* self.risk_weights in the order current_waste, historical_waste,
\* sales_trend, stock_level, perishability, seasonality
risk_weights == <<25, 20, 20, 15, 10, 10>>
bins_top == <<Score(0), Score(30), Score(60), Score(100)>>

score_current_waste(r) == Clip(r.waste_percentage, 0, 100 * FP)
score_historical_waste_times5(r, cols) ==
    IF "waste_rolling_mean_14d" \in cols
    THEN Clip100Div(5 * EpsNum(r.waste_rolling_mean_14d), EpsDen(r.stock), 2)
    ELSE 0
score_historical_waste(r, cols) ==
    IF "waste_rolling_mean_14d" \in cols
    THEN Clip100Div(EpsNum(r.waste_rolling_mean_14d), EpsDen(r.stock), 2)
    ELSE 0
score_sales_trend(r, cols) ==
    IF "sales_rolling_mean_7d" \in cols /\ "sales_rolling_mean_14d" \in cols
    THEN Clip100Div(5 * (EpsDen(r.sales_rolling_mean_14d)
                         - 2 * EpsNum(r.sales_rolling_mean_7d - r.sales_rolling_mean_14d)),
                    EpsDen(r.sales_rolling_mean_14d), 1)
    ELSE 50 * FP
score_stock_level(r, cols) ==
    IF "sales_rolling_mean_7d" \in cols
    THEN Clip100Div(5 * (EpsNum(r.stock) - EpsDen(r.sales_rolling_mean_7d)),
                    EpsDen(r.sales_rolling_mean_7d), 1)
    ELSE 50 * FP
score_perishability_unscaled(r) ==
    IF IsNaN(r.perishable) THEN NaN ELSE IF r.perishable # 0 THEN FP ELSE 0
\* df['perishable'].astype(int) * 100
score_perishability(r) ==
    IF IsNaN(r.perishable) THEN NaN ELSE IF r.perishable # 0 THEN 100 * FP ELSE 0
score_seasonality == 50 * FP

RiskCols_top(r, cols, self_risk_weights) ==
    LET sc == score_current_waste(r)
        sh == score_historical_waste(r, cols)
        st == score_sales_trend(r, cols)
        ss == score_stock_level(r, cols)
        sp == score_perishability(r)
        total == WeightedSum(<<sc, sh, st, ss, sp, score_seasonality>>, self_risk_weights)
    IN  [score_current_waste |-> sc, score_historical_waste |-> sh,
         score_sales_trend |-> st, score_stock_level |-> ss,
         score_perishability |-> sp, score_seasonality |-> score_seasonality,
         waste_risk_score |-> total, risk_level |-> cut(total, bins_top, Labels)]

calculate_waste_risk(df, self_risk_weights) ==
    BuildRows(LAMBDA i : RiskCols_top(df[i], Columns(df), self_risk_weights) @@ Copy(df)[i],
              Len(df))

(* ---------- what makes an operation raise ---------- *)

\* a date pd.to_datetime cannot parse
BadDate == 99
Parseable(d) == d # BadDate

\* the columns an operation reads without checking that they exist, given the
\* columns cols of its input: a missing one is a KeyError
Needs(im, op, cols, windows) ==
    CASE op = "temporal" -> IF im = "src" THEN {"date"} ELSE {"date", "day_of_week"}
      [] op = "rolling"  -> {"store_id", "product", "date"}
                            \cup (IF windows = <<>> THEN {} ELSE {"sales", "waste"})
      [] op = "ratio"    -> {"sales", "stock", "waste"}
                            \cup (IF "sales_rolling_mean_7d" \in cols
                                  THEN {"sales_rolling_std_7d"} ELSE {})
      [] op = "aggregate" -> {"product", "store_id", "sales", "waste_percentage"}
      [] op = "risk" ->
            {"waste_percentage", "perishable"}
            \cup (IF "waste_rolling_mean_14d" \in cols THEN {"stock"} ELSE {})
            \cup (IF "sales_rolling_mean_7d" \in cols
                  THEN (IF im = "src" THEN {"stock", "sales_rolling_mean_14d"}
                        ELSE {"stock"})
                  ELSE {})

\* the operation raises on table df instead of returning
Raises(im, op, df, windows) ==
    \/ Needs(im, op, Columns(df), windows) \ Columns(df) # {}
    \/ op = "temporal" /\ \E i \in 1..Len(df) : ~Parseable(df[i].date)
    \* astype(int) on a missing value
    \/ op = "risk" /\ im = "top" /\ \E i \in 1..Len(df) : IsNaN(df[i].perishable)

(* ---------- recommendations ---------- *)

\* row.get(c, default)
Get(row, c, default) == IF c \in DOMAIN row THEN row[c] ELSE default
\* Python truth value of a cell: 0, False and None are false, NaN is true
Truthy(x) == x # 0
Gt_or_equal(x, y) == ~IsNaN(x) /\ x >= y
\* x > y and x < y on floats: every comparison with NaN is False
Gt(x, y) == ~IsNaN(x) /\ x > y
Lt(x, y) == ~IsNaN(x) /\ x < y

get_recommendations_no_default(row) ==
    LET score == Get(row, "waste_risk_score", 0)
        recs1 == IF Gt(score, Score(70))
                 THEN <<"URGENT: Markdown 30% immediately", "Halve next supplier order">>
                 ELSE IF Gt(score, Score(40))
                 THEN <<"Apply 15% discount", "Reduce order quantity">>
                 ELSE <<>>
    IN  IF Truthy(Get(row, "perishable", 0))
           /\ Gt(Get(row, "waste_percentage", 0), 10 * FP)
        THEN Append(recs1, "Inspect quality / Check expiration")
        ELSE recs1

\* src/src/waste_predictor.py
get_recommendations(row) ==
    LET score == Get(row, "waste_risk_score", 0)
        recs1 == IF Gt(score, Score(70))
                 THEN <<"URGENT: Markdown 30% immediately", "Halve next supplier order">>
                 ELSE IF Gt(score, Score(40))
                 THEN <<"Apply 15% discount", "Reduce order quantity">>
                 ELSE <<>>
        recs2 == IF Truthy(Get(row, "perishable", 0))
                    /\ Gt(Get(row, "waste_percentage", 0), 10 * FP)
                 THEN Append(recs1, "Inspect quality / Check expiration")
                 ELSE recs1
    IN  IF recs2 = <<>> THEN Append(recs2, "Monitor Standard Levels") ELSE recs2

\* f"Only ~{days_left:.0f} days until expiry - urgent action needed", for
\* days_left = num / den < 2 (round half to even)
ExpiryNote(num, den) ==
    LET q == num \div den
        r == num % den
        n == IF 2 * r > den \/ (2 * r = den /\ q % 2 = 1) THEN q + 1 ELSE q
    IN  CASE n <= 0 -> "Only ~0 days until expiry - urgent action needed"
          [] n = 1 -> "Only ~1 days until expiry - urgent action needed"
          [] OTHER -> "Only ~2 days until expiry - urgent action needed"

\* src/waste_predictor.py
get_recommendations_top_default_by_score(row) ==
    LET risk_score == Get(row, "waste_risk_score", 0)
        perishable == Truthy(Get(row, "perishable", 0))
        wp == Get(row, "waste_percentage", 0)
        recs1 == IF Gt(risk_score, Score(60))
                 THEN <<"URGENT: Consider immediate markdown (20-30% off)",
                        "Reduce next order quantity by 30-50%">>
                      \o (IF perishable THEN <<"Move to prominent display location">>
                          ELSE <<>>)
                 ELSE IF Gt(risk_score, Score(40))
                 THEN <<"Apply promotional discount (10-15% off)",
                        "Reduce next order quantity by 15-25%">>
                 ELSE <<>>
        \* days_left = shelf_life_days * (1 - waste_percentage / 200)
        num == Get(row, "shelf_life_days", 7) * (200 * FP - wp)
        den == 200 * FP
        recs2 == IF perishable /\ Gt(wp, 30 * FP) /\ num < 2 * den
                 THEN Append(recs1, ExpiryNote(num, den))
                 ELSE recs1
        recs3 == IF Lt(Get(row, "sales_stock_ratio", FP), FP \div 2)
                 THEN Append(recs2, "Improve product placement/visibility")
                 ELSE recs2
    IN  IF recs1 # <<>> THEN recs3
        ELSE recs3 \o <<"Monitor closely", "Continue normal operations">>

get_recommendations_top(row) ==
    LET risk_score == Get(row, "waste_risk_score", 0)
        perishable == Truthy(Get(row, "perishable", 0))
        wp == Get(row, "waste_percentage", 0)
        recs1 == IF Gt(risk_score, Score(60))
                 THEN <<"URGENT: Consider immediate markdown (20-30% off)",
                        "Reduce next order quantity by 30-50%">>
                      \o (IF perishable THEN <<"Move to prominent display location">>
                          ELSE <<>>)
                 ELSE IF Gt(risk_score, Score(40))
                 THEN <<"Apply promotional discount (10-15% off)",
                        "Reduce next order quantity by 15-25%">>
                 ELSE <<>>
        \* days_left = shelf_life_days * (1 - waste_percentage / 200)
        num == Get(row, "shelf_life_days", 7) * (200 * FP - wp)
        den == 200 * FP
        recs2 == IF perishable /\ Gt(wp, 30 * FP) /\ num < 2 * den
                 THEN Append(recs1, ExpiryNote(num, den))
                 ELSE recs1
        recs3 == IF Lt(Get(row, "sales_stock_ratio", FP), FP \div 2)
                 THEN Append(recs2, "Improve product placement/visibility")
                 ELSE recs2
    IN  IF recs3 # <<>> THEN recs3
        ELSE <<"Monitor closely", "Continue normal operations">>

(* ---------- data sources and storage ---------- *)

MaxDays == 8
MaxStores == 2
MaxCsvLoads == 2

\* datetime.now(), as a day ordinal
Today == 20

\* the catalogue of the generator and the (sales, stock) pairs its seeded
\* random stream yields: regular days, a sales drop, a sales spike, no demand
GenProducts == <<"Apples">>
GenCategory(p) == "Fresh Produce"
GenProfiles == <<[sales |-> 1000, stock |-> 1300], [sales |-> 1200, stock |-> 1500],
                 [sales |-> 300, stock |-> 1400],  [sales |-> 2000, stock |-> 2500],
                 [sales |-> 1800, stock |-> 600],  [sales |-> 0, stock |-> 0],
                 [sales |-> 1500, stock |-> 1700]>>
GenProfile(store, day) ==
    GenProfiles[((42 + 4 * store + 3 * day + day * day) % Len(GenProfiles)) + 1]

\* waste / stock * 100
WastePct(waste, stock) == RoundDivK(waste, stock, 2 + Decimals)

\* RetailDataGenerator().generate_sales_data(n_days, n_stores)
generate_sales_data(n_days, n_stores) ==
    LET P == Len(GenProducts)
        row(k) ==
            LET store == (k - 1) \div (n_days * P) + 1
                day   == ((k - 1) \div P) % n_days
                prod  == GenProducts[((k - 1) % P) + 1]
                g     == GenProfile(store, day)
                waste == Max2(0, g.stock - g.sales)
            IN  [date |-> Today - n_days + day, store_id |-> store,
                 category |-> GenCategory(prod), product |-> prod,
                 sales |-> g.sales, stock |-> g.stock, waste |-> waste,
                 waste_percentage |-> IF g.stock > 0 THEN WastePct(waste, g.stock) ELSE 0,
                 price |-> 250, day_of_week |-> DayOfWeek(Today - n_days + day)]
    IN  BuildRows(row, n_days * n_stores * P)

\* the CSV files a user imports: rows in file order
CsvFiles ==
    << << [date |-> 14, product |-> "Bread", category |-> "Bakery",
           sales |-> 3000, stock |-> 3000, waste |-> 0, price |-> 300],
          [date |-> 12, product |-> "Bread", category |-> "Bakery",
           sales |-> 1000, stock |-> 2000, waste |-> 1000, price |-> 300],
          [date |-> 13, product |-> "Bread", category |-> "Bakery",
           sales |-> 2000, stock |-> 2500, waste |-> 500, price |-> 300] >>,
       << [date |-> 15, product |-> "Apples", category |-> "Produce",
           sales |-> 500, stock |-> 0, waste |-> 0, price |-> 199],
          [date |-> 11, product |-> "Apples", category |-> "Produce",
           sales |-> 200, stock |-> 2000, waste |-> 1800, price |-> 199] >>,
       << [date |-> 13, product |-> "Ice Cream", category |-> "Frozen",
           sales |-> 1000, stock |-> 2000, waste |-> 2000, price |-> 450] >> >>

ShelfLifeOf(category) ==
    CASE category = "Produce" -> 7 [] category = "Dairy" -> 14
      [] category = "Bakery" -> 3 [] category = "Meat" -> 5
      [] category = "Frozen" -> 180 [] OTHER -> 30

\* DataLoader.load_csv: the table handed to store_sales_data
load_csv(file) ==
    BuildRows(LAMBDA i :
        [store_id |-> 1,
         waste_percentage |->
             IF file[i].stock > 0 THEN WastePct(file[i].waste, file[i].stock) ELSE 0,
         shelf_life_days |-> ShelfLifeOf(file[i].category),
         perishable |-> IF file[i].category \in {"Produce", "Dairy", "Bakery", "Meat"}
                        THEN 1 ELSE 0,
         day_of_week |-> DayOfWeek(file[i].date)] @@ file[i], Len(file))

\* the columns of table sales_data; a column the inserted table lacks is NULL
SalesDataCols == {"date", "store_id", "category", "product", "sales", "stock", "waste",
                  "waste_percentage", "price", "day_of_week", "shelf_life_days",
                  "perishable"}

\* DatabaseManager.store_sales_data: append with AUTOINCREMENT ids
store_sales_data(table, df) ==
    table \o BuildRows(LAMBDA i :
        [c \in SalesDataCols \cup {"id"} |->
            IF c = "id" THEN Len(table) + i
            ELSE IF c \in DOMAIN df[i] THEN df[i][c] ELSE NaN], Len(df))

RECURSIVE SelectRows(_, _)
SelectRows(Keep(_), table) ==
    IF table = <<>> THEN <<>>
    ELSE (IF Keep(Head(table)) THEN <<Head(table)>> ELSE <<>>)
         \o SelectRows(Keep, Tail(table))

\* DatabaseManager.get_sales_data(store_id = store_id); 0 stands for None
get_sales_data(table, store_id) ==
    IF store_id # 0 THEN SelectRows(LAMBDA r : r.store_id = store_id, table)
    ELSE table

(* ---------- src/src/anomaly_detector.py, src/generation/anomaly_detector.py ---------- *)

\* the default path of save() and load(), and another path
ModelPath == "models/isolation_forest.pkl"
Paths == {ModelPath, "models/backup.pkl"}

\* the IsolationForest: unfitted, or fitted on a number of samples
Unfitted == [fitted |-> FALSE, samples |-> 0]
Fitted(n) == [fitted |-> TRUE, samples |-> n]

\* AnomalyDetector.__init__ of class cls, "src" (src/src) or "generation";
\* the empty list stands for both [] and None
NewDetector(cls) ==
    [cls |-> cls, model |-> Unfitted, feature_cols |-> <<>>, is_trained |-> FALSE]

NoFile == [exists |-> FALSE]
File(model, cols) == [exists |-> TRUE, model |-> model, cols |-> cols]
NoFiles == [p \in Paths |-> NoFile]

\* how an operation ends: the detector it leaves, the files it leaves, the
\* exception it raised ("" for none) and the value it returned
Outcome(self, files, raised, value) ==
    [detector |-> self, disk |-> files, raised |-> raised, value |-> value]

\* df[cols]: a listed column the table does not have is a KeyError
Selectable(X, cols) == {cols[k] : k \in DOMAIN cols} \subseteq Columns(X)

train_marks_first(self, files, X, feature_cols) ==
    LET d1 == [self EXCEPT !.feature_cols = feature_cols, !.is_trained = TRUE]
    IN  IF ~Selectable(X, feature_cols) THEN Outcome(d1, files, "KeyError", "None")
        ELSE IF Len(X) = 0 THEN Outcome(d1, files, "ValueError", "None")
        ELSE Outcome([d1 EXCEPT !.model = Fitted(Len(X))], files, "", "self")
\* AnomalyDetector.train(df, feature_cols): feature_cols is assigned before
\* the columns are selected and the forest is fitted; fitting no sample is a
\* ValueError of the forest
train(self, files, X, feature_cols) ==
    LET d1 == [self EXCEPT !.feature_cols = feature_cols]
    IN  IF ~Selectable(X, feature_cols) THEN Outcome(d1, files, "KeyError", "None")
        ELSE IF Len(X) = 0 THEN Outcome(d1, files, "ValueError", "None")
        ELSE Outcome([d1 EXCEPT !.model = Fitted(Len(X)), !.is_trained = TRUE],
                     files, "", "self")

\* AnomalyDetector.predict(df)
predict(self, files, X) ==
    IF ~self.is_trained THEN Outcome(self, files, "ValueError", "None")
    ELSE IF ~Selectable(X, self.feature_cols) THEN Outcome(self, files, "KeyError", "None")
    ELSE IF Len(X) = 0 THEN Outcome(self, files, "ValueError", "None")
    ELSE Outcome(self, files, "", "preds, scores")

\* AnomalyDetector.save(path) of src/src, AnomalyDetector.save_model(path) of
\* src/generation
save(self, files, path) ==
    IF ~self.is_trained
    THEN IF self.cls = "src" THEN Outcome(self, files, "", "None")
         ELSE Outcome(self, files, "ValueError", "None")
    ELSE Outcome(self, [files EXCEPT ![path] = File(self.model, self.feature_cols)],
                 "", "None")

\* AnomalyDetector.load(path) of src/src; the static load_model(path) of
\* src/generation returns the saved detector and leaves every instance alone
load(self, files, path) ==
    IF self.cls = "src"
    THEN IF ~files[path].exists THEN Outcome(self, files, "", "False")
         ELSE Outcome([self EXCEPT !.model = files[path].model,
                                   !.feature_cols = files[path].cols,
                                   !.is_trained = TRUE], files, "", "True")
    ELSE IF ~files[path].exists THEN Outcome(self, files, "FileNotFoundError", "None")
         ELSE Outcome(self, files, "", "model")

\* the name of the operation in the class
SaveName(cls) == IF cls = "src" THEN "save" ELSE "save_model"
LoadName(cls) == IF cls = "src" THEN "load" ELSE "load_model"
NoOp == [op |-> "none", path |-> "", raised |-> "", value |-> "None"]

(* ---------- the service: storage, one pipeline call per slot ---------- *)

VARIABLES
    sales_data,     \* table sales_data of the database
    predictions,    \* table waste_risk_predictions of the database
    csv_loads,      \* number of CSV imports so far
    inst,           \* the FeatureEngineer and WasteRiskPredictor instances
    pc,             \* per call: the stage the call has completed
    impl,           \* per call: "src" (src/src/*.py) or "top" (src/*.py)
    arg,            \* per call: the table fetched for the call
    df,             \* per call: the call's working table
    response,       \* per call: the handler's response
    recs,           \* the last direct get_recommendations(row) call and its result
    detector,       \* the AnomalyDetector instance
    disk,           \* per path: the model file saved there, if any
    last            \* the last AnomalyDetector operation and how it ended

vars == <<sales_data, predictions, csv_loads, inst, pc, impl, arg, df, response, recs,
          detector, disk, last>>
detector_vars == <<detector, disk, last>>

Calls == {1, 2}
NoResponse == [status |-> 0]
NoRecs == [called |-> FALSE, impl |-> "src", row |-> [status |-> 0], out |-> <<>>]

\* module-level construction in app.py; nothing is stored, no call is running
InitInst == [scaler |-> "unfitted", weights |-> weights, risk_weights |-> risk_weights]
InitCalls ==
    /\ predictions = <<>>
    /\ inst = InitInst
    /\ pc = [c \in Calls |-> "idle"]
    /\ impl = [c \in Calls |-> "src"]
    /\ arg = [c \in Calls |-> <<>>]
    /\ df = [c \in Calls |-> <<>>]
    /\ response = [c \in Calls |-> NoResponse]
    /\ recs = NoRecs
    /\ detector = NewDetector("src")
    /\ disk = NoFiles
    /\ last = NoOp

Init ==
    /\ sales_data = <<>>
    /\ csv_loads = 0
    /\ InitCalls

Idle == \A c \in Calls : pc[c] = "idle"

\* initialize_system on empty storage: generate and store start-up data
GenerateData(n_days, n_stores) ==
    /\ Idle
    /\ get_sales_data(sales_data, 0) = <<>>
    /\ sales_data' = store_sales_data(sales_data, generate_sales_data(n_days, n_stores))
    /\ UNCHANGED <<detector_vars, predictions, csv_loads, inst, pc, impl, arg, df, response, recs>>

\* DataLoader.load_csv(file)
LoadCsv(f) ==
    /\ Idle
    /\ csv_loads < MaxCsvLoads
    /\ sales_data' = store_sales_data(sales_data, load_csv(CsvFiles[f]))
    /\ csv_loads' = csv_loads + 1
    /\ UNCHANGED <<detector_vars, predictions, inst, pc, impl, arg, df, response, recs>>

\* a call begins: db.get_sales_data(...), an empty result ends it with 404
Fetch(c, im, store_id) ==
    /\ pc[c] = "idle"
    /\ LET t == get_sales_data(sales_data, store_id)
       IN  /\ arg' = [arg EXCEPT ![c] = t]
           /\ df' = [df EXCEPT ![c] = t]
           /\ impl' = [impl EXCEPT ![c] = im]
           /\ IF t = <<>>
              THEN /\ pc' = [pc EXCEPT ![c] = "responded"]
                   /\ response' = [response EXCEPT ![c] = [status |-> 404]]
              ELSE /\ pc' = [pc EXCEPT ![c] = "fetched"]
                   /\ UNCHANGED response
    /\ UNCHANGED <<detector_vars, sales_data, predictions, csv_loads, inst, recs>>

\* an exception leaves the handler through its except clause: status 500
Raise(c) ==
    /\ pc' = [pc EXCEPT ![c] = "raised"]
    /\ response' = [response EXCEPT ![c] = [status |-> 500]]
    /\ UNCHANGED <<detector_vars, sales_data, predictions, csv_loads, inst, impl, arg, df, recs>>

Stage(c, from, to, op, out) ==
    /\ pc[c] = from
    /\ IF Raises(impl[c], op, df[c], WindowsOf(impl[c]))
       THEN Raise(c)
       ELSE /\ df' = [df EXCEPT ![c] = out]
            /\ pc' = [pc EXCEPT ![c] = to]
            /\ UNCHANGED <<detector_vars, sales_data, predictions, csv_loads, inst, impl, arg,
                           response, recs>>

\* engineer_features, stage by stage
Temporal(c) ==
    Stage(c, "fetched", "temporal", "temporal",
          IF impl[c] = "src" THEN create_temporal_features(Copy(df[c]))
          ELSE create_temporal_features_top(df[c]))
Rolling(c) ==
    Stage(c, "temporal", "rolling", "rolling",
          IF impl[c] = "src" THEN create_rolling_features(df[c])
          ELSE create_rolling_features_top(df[c]))
Ratio_before_rolling(c) ==
    Stage(c, "temporal", "ratio", "ratio",
          IF impl[c] = "src" THEN create_ratio_features(df[c])
          ELSE create_ratio_features_top(df[c]))
Ratio(c) ==
    Stage(c, "rolling", "ratio", "ratio",
          IF impl[c] = "src" THEN create_ratio_features(df[c])
          ELSE create_ratio_features_top(df[c]))
Aggregate(c) ==
    Stage(c, "ratio", "engineered", "aggregate",
          IF impl[c] = "src" THEN create_aggregate_features(df[c])
          ELSE create_aggregate_features_top(df[c]))

CalculateRisk_keeps_state(c) ==
    /\ pc[c] = "engineered"
    /\ df' = [df EXCEPT ![c] =
                 IF impl[c] = "src" THEN calculate_risk(df[c], inst.weights)
                 ELSE calculate_waste_risk(df[c], inst.risk_weights)]
    /\ inst' = [inst EXCEPT !.weights = <<weights[1] + weights[5], weights[2],
                                          weights[3], weights[4], 0>>,
                            !.risk_weights = <<risk_weights[1] + risk_weights[6],
                                               risk_weights[2], risk_weights[3],
                                               risk_weights[4], risk_weights[5], 0>>]
    /\ pc' = [pc EXCEPT ![c] = "scored"]
    /\ UNCHANGED <<detector_vars, sales_data, predictions, csv_loads, impl, arg, response, recs>>
\* waste_predictor.calculate_risk(df) / calculate_waste_risk(df)
CalculateRisk(c) ==
    Stage(c, "engineered", "scored", "risk",
          IF impl[c] = "src" THEN calculate_risk(df[c], inst.weights)
          ELSE calculate_waste_risk(df[c], inst.risk_weights))

RECURSIVE CountRows(_, _)
CountRows(Keep(_), table) ==
    IF table = <<>> THEN 0
    ELSE (IF Keep(Head(table)) THEN 1 ELSE 0) + CountRows(Keep, Tail(table))

PredictionCols == {"date", "store_id", "product", "waste_risk_score", "risk_level",
                   "recommendations"}

\* the rest of waste_risk(): recommendations, store_predictions, the response
Respond(c) ==
    /\ pc[c] = "scored"
    /\ LET recommend(r) == IF impl[c] = "src" THEN get_recommendations(r)
                           ELSE get_recommendations_top(r)
           out == BuildRows(LAMBDA i : ("recommendations" :> recommend(df[c][i])) @@ df[c][i],
                            Len(df[c]))
       IN  /\ df' = [df EXCEPT ![c] = out]
           /\ predictions' = predictions \o
                  BuildRows(LAMBDA i : [col \in PredictionCols |-> out[i][col]], Len(out))
           /\ response' = [response EXCEPT ![c] =
                  [status |-> 200,
                   high_risk_count |-> CountRows(LAMBDA r : r.risk_level = "High", out)]]
    /\ pc' = [pc EXCEPT ![c] = "responded"]
    /\ UNCHANGED <<detector_vars, sales_data, csv_loads, inst, impl, arg, recs>>

Step(c) ==
    \/ \E im \in {"src", "top"}, store_id \in {0, 2} : Fetch(c, im, store_id)
    \/ Temporal(c)
    \/ Rolling(c)
    \/ Ratio(c)
    \/ Aggregate(c)
    \/ CalculateRisk(c)
    \/ Respond(c)

Next ==
    \/ \E n_days \in 1..MaxDays, n_stores \in 1..MaxStores : GenerateData(n_days, n_stores)
    \/ \E f \in 1..Len(CsvFiles) : LoadCsv(f)
    \/ Step(1)

Spec == Init /\ [][Next]_vars

(* ---------- scoring one feature vector ---------- *)

\* the feature vectors handed to the scoring engine: non-negative fixed-point
\* values on either side of every threshold of the scoring rules
WastePcts    == {0, 1000, 3100, 6000, 10000, 15000}
Stocks       == {0, 1000, 4000}
WasteMeans   == {0, 200, 2000}
SalesMeans7  == {0, 500, 2000}
SalesMeans14 == {0, 1000, 2000}
ShelfLives   == {3, 7}
Ratios       == {25, 100}

FeatureRow(wp, stock, wm, m7, m14, per, shelf, ratio) ==
    [date |-> 1, store_id |-> 1, product |-> "Apples",
     waste_percentage |-> wp, stock |-> stock, waste_rolling_mean_14d |-> wm,
     sales_rolling_mean_7d |-> m7, sales_rolling_mean_14d |-> m14,
     perishable |-> per, shelf_life_days |-> shelf, sales_stock_ratio |-> ratio]

InitScore ==
    /\ sales_data = <<>>
    /\ csv_loads = 0
    /\ predictions = <<>>
    /\ inst = InitInst
    /\ response = [c \in Calls |-> NoResponse]
    /\ recs = NoRecs
    /\ detector = NewDetector("src")
    /\ disk = NoFiles
    /\ last = NoOp
    /\ pc = [c \in Calls |-> IF c = 1 THEN "engineered" ELSE "idle"]
    /\ \E im \in {"src", "top"} : impl = [c \in Calls |-> im]
    /\ \E wp \in WastePcts, stock \in Stocks, wm \in WasteMeans, m7 \in SalesMeans7,
          m14 \in SalesMeans14, per \in {0, 1}, shelf \in ShelfLives, ratio \in Ratios :
          LET t == <<FeatureRow(wp, stock, wm, m7, m14, per, shelf, ratio)>>
          IN  /\ arg = [c \in Calls |-> IF c = 1 THEN t ELSE <<>>]
              /\ df = arg

\* the fields get_recommendations reads with row.get
RecFields == {"waste_risk_score", "perishable", "waste_percentage", "shelf_life_days",
              "sales_stock_ratio"}
Drops == {{}, RecFields} \cup {{f} : f \in RecFields}

\* a client calls get_recommendations(row) on a scored row, or on a row that
\* lacks some of the fields
Recommend(c, drop) ==
    /\ pc[c] = "scored"
    /\ LET r   == df[c][1]
           row == [f \in (DOMAIN r) \ drop |-> r[f]]
       IN  recs' = [called |-> TRUE, impl |-> impl[c], row |-> row,
                    out |-> IF impl[c] = "src" THEN get_recommendations(row)
                            ELSE get_recommendations_top(row)]
    /\ pc' = [pc EXCEPT ![c] = "advised"]
    /\ UNCHANGED <<detector_vars, sales_data, predictions, csv_loads, inst, impl, arg, df, response>>

NextScore ==
    \/ CalculateRisk(1)
    \/ Respond(1)
    \/ \E drop \in Drops : Recommend(1, drop)

SpecScore == InitScore /\ [][NextScore]_vars

(* ---------- two calls on the same instances ---------- *)

MaxDaysTwice == 2

TwiceTables ==
    {store_sales_data(<<>>, generate_sales_data(n, MaxStores)) : n \in 1..MaxDaysTwice}
    \cup {store_sales_data(<<>>, load_csv(CsvFiles[f])) : f \in 1..Len(CsvFiles)}

InitTwice ==
    /\ sales_data \in TwiceTables
    /\ csv_loads = 0
    /\ InitCalls

NextTwice == \E c \in Calls : Step(c)

SpecTwice == InitTwice /\ [][NextTwice]_vars

(* ---------- direct calls on a table the caller holds ---------- *)

\* create_rolling_features(df, windows) with the window list the caller passes
create_rolling_features_with(t, windows) ==
    fillna0(ApplyWindows(sort_values(Copy(t)), windows))

\* engineer_features raises when one of its stages does
EngineerRaises(im, t) ==
    IF im = "src"
    THEN IF t = <<>> THEN FALSE
         ELSE \/ Raises(im, "temporal", t, Windows)
              \/ LET t1 == create_temporal_features(Copy(t))
                 IN  \/ Raises(im, "rolling", t1, Windows)
                     \/ LET t2 == create_rolling_features(t1)
                        IN  \/ Raises(im, "ratio", t2, Windows)
                            \/ Raises(im, "aggregate", create_ratio_features(t2), Windows)
    ELSE \/ Raises(im, "temporal", t, Windows_top)
         \/ LET t1 == create_temporal_features_top(t)
            IN  \/ Raises(im, "rolling", t1, Windows_top)
                \/ LET t2 == create_rolling_features_top(t1)
                   IN  \/ Raises(im, "ratio", t2, Windows_top)
                       \/ Raises(im, "aggregate", create_ratio_features_top(t2),
                                 Windows_top)

Ops == {"temporal", "rolling", "ratio", "aggregate", "engineer", "risk"}
OpRaises(im, op, t, windows) ==
    IF op = "engineer" THEN EngineerRaises(im, t) ELSE Raises(im, op, t, windows)

\* the table the operation returns
Returned(im, op, t, windows, self) ==
    CASE op = "temporal" ->
            IF im = "src" THEN create_temporal_features(t)
            ELSE create_temporal_features_top(t)
      [] op = "rolling" -> create_rolling_features_with(t, windows)
      [] op = "ratio" ->
            IF im = "src" THEN create_ratio_features(t) ELSE create_ratio_features_top(t)
      [] op = "aggregate" ->
            IF im = "src" THEN create_aggregate_features(t)
            ELSE create_aggregate_features_top(t)
      [] op = "engineer" ->
            IF im = "src" THEN engineer_features(t) ELSE engineer_features_top(t)
      [] op = "risk" ->
            IF im = "src" THEN calculate_risk(t, self.weights)
            ELSE calculate_waste_risk(t, self.risk_weights)

\* src/src create_temporal_features and create_ratio_features assign their
\* columns on the table object they are given and return that object; every
\* other operation works on a copy or on a new table
InPlace(im, op) == im = "src" /\ op \in {"temporal", "ratio"}

\* what create_ratio_features (src/src) has assigned on the caller's table
\* by the time it raises: sales_stock_ratio once sales and stock were read,
\* sales_deviation_7d when the raise is on the missing waste column
RatioAssignedBeforeRaise(t) ==
    IF {"sales", "stock"} \subseteq Columns(t)
    THEN BuildRows(LAMBDA i :
             ("sales_stock_ratio" :> NpDiv(EpsNum(t[i].sales), EpsDen(t[i].stock)))
             @@ (IF {"sales_rolling_mean_7d", "sales_rolling_std_7d"} \subseteq Columns(t)
                 THEN "sales_deviation_7d" :>
                          NpDiv(EpsNum(t[i].sales - t[i].sales_rolling_mean_7d),
                                EpsDen(t[i].sales_rolling_std_7d))
                 ELSE <<>>)
             @@ t[i], Len(t))
    ELSE t

\* the tables callers hold: stored rows, whole or with a column dropped, an
\* unparseable date, a day_of_week of the caller's own, a missing price; and
\* the empty table
DropColumn(t, col) ==
    BuildRows(LAMBDA i : [f \in (DOMAIN t[i]) \ {col} |-> t[i][f]], Len(t))
WithCell(t, k, col, v) == [t EXCEPT ![k] = [t[k] EXCEPT ![col] = v]]
ShiftDayOfWeek(t) ==
    BuildRows(LAMBDA i : [t[i] EXCEPT !["day_of_week"] = (t[i].day_of_week + 1) % 7], Len(t))
DroppableCols == {"sales", "stock", "waste", "store_id", "product", "date",
                  "day_of_week", "waste_percentage", "perishable"}
BaseTables ==
    {store_sales_data(<<>>, load_csv(CsvFiles[2])),
     store_sales_data(store_sales_data(<<>>, load_csv(CsvFiles[1])), load_csv(CsvFiles[3])),
     store_sales_data(<<>>, generate_sales_data(MaxDaysTwice, 1))}
DirectTables ==
    {<<>>} \cup BaseTables
    \cup {DropColumn(t, col) : t \in BaseTables, col \in DroppableCols}
    \cup {WithCell(t, 1, "date", BadDate) : t \in BaseTables}
    \cup {ShiftDayOfWeek(t) : t \in BaseTables}
    \cup {WithCell(t, 1, "price", NaN) : t \in BaseTables}
    \cup {DropColumn(create_rolling_features_with(t, <<7>>), "sales_rolling_std_7d") :
              t \in BaseTables}
\* the window lists callers pass to create_rolling_features
WindowLists == {<<>>, <<7>>, <<14>>, <<7, 14>>}

InitDirect ==
    /\ sales_data = <<>>
    /\ csv_loads = 0
    /\ predictions = <<>>
    /\ inst = InitInst
    /\ \E t \in DirectTables, im \in {"src", "top"} :
           /\ pc = [c \in Calls |-> IF c = 1 THEN "held" ELSE "idle"]
           /\ impl = [c \in Calls |-> im]
           /\ arg = [c \in Calls |-> IF c = 1 THEN t ELSE <<>>]
           /\ df = [c \in Calls |-> IF c = 1 THEN t ELSE <<>>]
    /\ response = [c \in Calls |-> NoResponse]
    /\ recs = NoRecs
    /\ detector = NewDetector("src")
    /\ disk = NoFiles
    /\ last = NoOp

\* the caller calls one operation on the table it holds: arg is the caller's
\* table object, df what the call returns
CallOp(c, op, windows) ==
    /\ pc[c] = "held"
    /\ IF OpRaises(impl[c], op, arg[c], windows)
       THEN /\ pc' = [pc EXCEPT ![c] = "raised"]
            /\ arg' = [arg EXCEPT ![c] = IF InPlace(impl[c], op) /\ op = "ratio"
                                         THEN RatioAssignedBeforeRaise(arg[c])
                                         ELSE arg[c]]
            /\ df' = [df EXCEPT ![c] = <<>>]
       ELSE LET out == Returned(impl[c], op, arg[c], windows, inst)
            IN  /\ pc' = [pc EXCEPT ![c] = "returned"]
                /\ df' = [df EXCEPT ![c] = out]
                /\ arg' = [arg EXCEPT ![c] = IF InPlace(impl[c], op) THEN out ELSE arg[c]]
    /\ UNCHANGED <<detector_vars, sales_data, predictions, csv_loads, inst, impl, response, recs>>

\* the caller goes on with the table it was returned
Reuse(c) ==
    /\ pc[c] = "returned"
    /\ arg' = [arg EXCEPT ![c] = df[c]]
    /\ pc' = [pc EXCEPT ![c] = "held"]
    /\ UNCHANGED <<detector_vars, sales_data, predictions, csv_loads, inst, impl, df, response, recs>>

NextDirect ==
    \/ \E op \in Ops, windows \in WindowLists : CallOp(1, op, windows)
    \/ Reuse(1)

SpecDirect == InitDirect /\ [][NextDirect]_vars

(* ---------- operations on an anomaly detector ---------- *)

\* the tables a caller may hand to train and predict: none, stored rows, and
\* stored rows engineered
DetectorTables ==
    LET stored == store_sales_data(<<>>, load_csv(CsvFiles[2]))
    IN  {<<>>, stored, engineer_features(stored),
         engineer_features(store_sales_data(stored, load_csv(CsvFiles[1])))}
\* the column lists handed to train
DetectorCols == {get_feature_columns, <<"sales", "stock">>}

\* no call is running and nothing is stored
NoCalls ==
    /\ sales_data = <<>>
    /\ csv_loads = 0
    /\ predictions = <<>>
    /\ inst = InitInst
    /\ pc = [c \in Calls |-> "idle"]
    /\ impl = [c \in Calls |-> "src"]
    /\ df = [c \in Calls |-> <<>>]
    /\ response = [c \in Calls |-> NoResponse]
    /\ recs = NoRecs
\* a model file that an earlier run may have left at the default path
EarlierRuns ==
    {NoFiles, [NoFiles EXCEPT ![ModelPath] = File(Fitted(5), get_feature_columns)]}

\* a detector of either class has been constructed, and each caller holds
\* the table it will hand to it
InitDetector ==
    /\ NoCalls
    /\ arg \in [Calls -> DetectorTables]
    /\ \E cls \in {"src", "generation"} : detector = NewDetector(cls)
    /\ disk \in EarlierRuns
    /\ last = NoOp

\* one operation on the detector ends with outcome r
DetectorOp(op, path, r) ==
    /\ detector' = r.detector
    /\ disk' = r.disk
    /\ last' = [op |-> op, path |-> path, raised |-> r.raised, value |-> r.value]
    /\ UNCHANGED <<sales_data, predictions, csv_loads, inst, pc, impl, arg, df,
                   response, recs>>

Train(c, cols) == DetectorOp("train", "", train(detector, disk, arg[c], cols))
Predict(c) == DetectorOp("predict", "", predict(detector, disk, arg[c]))
Save(path) == DetectorOp(SaveName(detector.cls), path, save(detector, disk, path))
Load(path) == DetectorOp(LoadName(detector.cls), path, load(detector, disk, path))

NextDetector ==
    \/ \E c \in Calls, cols \in DetectorCols : Train(c, cols)
    \/ \E c \in Calls : Predict(c)
    \/ \E path \in Paths : Save(path)
    \/ \E path \in Paths : Load(path)

SpecDetector == InitDetector /\ [][NextDetector]_vars

(* ---------- start-up: initialize_system of src/src/app.py ---------- *)

\* the module has constructed its instances; the storage and the models
\* directory hold what earlier runs left
InitStartup ==
    /\ NoCalls
    /\ arg = [c \in Calls |-> <<>>]
    /\ detector = NewDetector("src")
    /\ disk \in EarlierRuns
    /\ last = NoOp

\* if not anomaly_detector.load(): the start-up is over when a model was found
StartLoad ==
    /\ pc[1] = "idle"
    /\ LET r == load(detector, disk, ModelPath)
       IN  /\ detector' = r.detector
           /\ last' = [op |-> "load", path |-> ModelPath,
                       raised |-> r.raised, value |-> r.value]
           /\ pc' = [pc EXCEPT ![1] = IF r.value = "True" THEN "up" ELSE "no_model"]
    /\ UNCHANGED <<sales_data, predictions, csv_loads, inst, impl, arg, df, response,
                   recs, disk>>

\* df = db.get_sales_data()
StartFetch ==
    /\ pc[1] = "no_model"
    /\ df' = [df EXCEPT ![1] = get_sales_data(sales_data, 0)]
    /\ pc' = [pc EXCEPT ![1] = IF df'[1] = <<>> THEN "no_data" ELSE "have_data"]
    /\ UNCHANGED <<detector_vars, sales_data, predictions, csv_loads, inst, impl, arg,
                   response, recs>>

\* df = gen.generate_sales_data(...); db.store_sales_data(df): the table
\* that goes on to training is the generated one, not the stored one
StartGenerate(n_days, n_stores) ==
    /\ pc[1] = "no_data"
    /\ LET g == generate_sales_data(n_days, n_stores)
       IN  /\ sales_data' = store_sales_data(sales_data, g)
           /\ df' = [df EXCEPT ![1] = g]
    /\ pc' = [pc EXCEPT ![1] = "have_data"]
    /\ UNCHANGED <<detector_vars, predictions, csv_loads, inst, impl, arg, response, recs>>

\* df = feature_engineer.engineer_features(df)
StartEngineer ==
    /\ pc[1] = "have_data"
    /\ IF EngineerRaises("src", df[1])
       THEN pc' = [pc EXCEPT ![1] = "crashed"] /\ UNCHANGED df
       ELSE /\ df' = [df EXCEPT ![1] = engineer_features(df[1])]
            /\ pc' = [pc EXCEPT ![1] = "featured"]
    /\ UNCHANGED <<detector_vars, sales_data, predictions, csv_loads, inst, impl, arg,
                   response, recs>>

\* anomaly_detector.train(df, feature_engineer.get_feature_columns()): an
\* exception leaves initialize_system, and the import of the module, there
StartTrain ==
    /\ pc[1] = "featured"
    /\ LET r == train(detector, disk, df[1], get_feature_columns)
       IN  /\ detector' = r.detector
           /\ last' = [op |-> "train", path |-> "", raised |-> r.raised, value |-> r.value]
           /\ pc' = [pc EXCEPT ![1] = IF r.raised = "" THEN "trained" ELSE "crashed"]
    /\ UNCHANGED <<sales_data, predictions, csv_loads, inst, impl, arg, df, response,
                   recs, disk>>

\* anomaly_detector.save()
StartSave ==
    /\ pc[1] = "trained"
    /\ LET r == save(detector, disk, ModelPath)
       IN  /\ disk' = r.disk
           /\ last' = [op |-> "save", path |-> ModelPath,
                       raised |-> r.raised, value |-> r.value]
    /\ pc' = [pc EXCEPT ![1] = "up"]
    /\ UNCHANGED <<sales_data, predictions, csv_loads, inst, impl, arg, df, response,
                   recs, detector>>

\* earlier runs have stored data; then initialize_system runs
NextStartup ==
    \/ \E n_days \in 1..MaxDaysTwice, n_stores \in 1..MaxStores :
           GenerateData(n_days, n_stores)
    \/ \E f \in 1..Len(CsvFiles) : LoadCsv(f)
    \/ StartLoad
    \/ StartFetch
    \/ \E n_days \in 1..MaxDaysTwice, n_stores \in 1..MaxStores :
           StartGenerate(n_days, n_stores)
    \/ StartEngineer
    \/ StartTrain
    \/ StartSave

SpecStartup == InitStartup /\ [][NextStartup]_vars

(* ---------- properties ---------- *)

IsScored(c) == pc[c] \in {"scored", "responded", "advised"}
ScoreCols(im) ==
    IF im = "src" THEN {"score_current", "score_hist", "score_trend", "score_stock"}
    ELSE {"score_current_waste", "score_historical_waste", "score_sales_trend",
          "score_stock_level", "score_perishability", "score_seasonality"}
Range(f) == {f[x] : x \in DOMAIN f}

\* C1: in both scoring implementations every component score of every scored
\* row lies in [0, 100] and so does the composite waste_risk_score
BoundedScores ==
    \A c \in Calls : IsScored(c) =>
        \A i \in 1..Len(df[c]) :
            /\ \A col \in ScoreCols(impl[c]) : df[c][i][col] \in 0..(100 * FP)
            /\ df[c][i].waste_risk_score \in 0..Score(100)

\* a row whose waste percentage exceeds 100 and whose every component is
\* clamped at the top: the composite reaches exactly 100
BoundedScoresWitness ==
    /\ IsScored(1) /\ impl[1] = "src"
    /\ df[1][1].waste_percentage > 100 * FP
    /\ df[1][1].score_current = 100 * FP
    /\ df[1][1].score_stock = 100 * FP
    /\ df[1][1].waste_risk_score = Score(100)

LevelRank(l) == CASE l = "Low" -> 1 [] l = "Medium" -> 2 [] l = "High" -> 3 [] OTHER -> 0

\* C2: every scored row has a risk_level among Low, Medium, High, and of two
\* rows of a scored table the one with the higher score never has the lower
\* level
RiskLevelMonotone ==
    \A c \in Calls : IsScored(c) =>
        /\ \A i \in 1..Len(df[c]) : df[c][i].risk_level \in {"Low", "Medium", "High"}
        /\ \A i, j \in 1..Len(df[c]) :
               df[c][i].waste_risk_score <= df[c][j].waste_risk_score
                   => LevelRank(df[c][i].risk_level) <= LevelRank(df[c][j].risk_level)

\* a scored table of the service that holds a row with score 0, labelled
\* Low, below a row labelled Medium
RiskLevelMonotoneWitness ==
    /\ IsScored(1) /\ impl[1] = "src"
    /\ \E i, j \in 1..Len(df[1]) :
           /\ df[1][i].waste_risk_score = 0 /\ df[1][i].risk_level = "Low"
           /\ df[1][j].risk_level = "Medium"

\* C3: Low up to a score of 30, Medium above 30 up to 60, High above 60; the
\* high_risk_count of the response is the number of rows scoring above 60
RiskLevelThresholds ==
    \A c \in Calls : IsScored(c) =>
        /\ \A i \in 1..Len(df[c]) :
               LET sc == df[c][i].waste_risk_score
                   l  == df[c][i].risk_level
               IN  /\ sc <= Score(30) => l = "Low"
                   /\ (sc > Score(30) /\ sc <= Score(60)) => l = "Medium"
                   /\ sc > Score(60) => l = "High"
        /\ (pc[c] = "responded" /\ response[c].status = 200) =>
               response[c].high_risk_count =
                   Cardinality({i \in 1..Len(df[c]) : df[c][i].waste_risk_score > Score(60)})

\* a response that counts a High row while another row sits exactly on 60
RiskLevelThresholdsWitness ==
    /\ pc[1] = "responded" /\ response[1].status = 200
    /\ response[1].high_risk_count >= 1
    /\ \E i \in 1..Len(df[1]) :
           df[1][i].waste_risk_score = Score(60) /\ df[1][i].risk_level = "Medium"

\* C4: get_recommendations never returns an empty list, whichever fields the
\* row carries
RecommendationsNonEmpty ==
    /\ recs.called => Len(recs.out) >= 1
    /\ \A c \in Calls : pc[c] = "responded" /\ response[c].status = 200 =>
           \A i \in 1..Len(df[c]) : Len(df[c][i].recommendations) >= 1

\* a call on a row that carries none of the fields get_recommendations reads
RecommendationsNonEmptyWitness ==
    /\ recs.called
    /\ RecFields \cap DOMAIN recs.row = {}

DefaultRecs(im) ==
    IF im = "src" THEN <<"Monitor Standard Levels">>
    ELSE <<"Monitor closely", "Continue normal operations">>

\* some rule of the implementation's rule list applies to the row
RuleFires(im, row) ==
    LET sc    == Get(row, "waste_risk_score", 0)
        per   == Truthy(Get(row, "perishable", 0))
        wp    == Get(row, "waste_percentage", 0)
    IN  IF im = "src"
        THEN Gt(sc, Score(40)) \/ (per /\ Gt(wp, 10 * FP))
        ELSE \/ Gt(sc, Score(40))
             \/ per /\ Gt(wp, 30 * FP)
                    /\ Get(row, "shelf_life_days", 7) * (200 * FP - wp) < 400 * FP
             \/ Lt(Get(row, "sales_stock_ratio", FP), FP \div 2)

\* C5: a row on which no rule fires gets exactly the default recommendation,
\* and the default never appears next to a recommendation of a rule; a row
\* with score 0 that is not perishable and has no low sales-to-stock ratio is
\* such a row
DefaultOnlyWhenNoRule ==
    recs.called =>
        LET d == DefaultRecs(recs.impl)
        IN  /\ ~RuleFires(recs.impl, recs.row) => recs.out = d
            /\ (\E k \in 1..Len(recs.out) : recs.out[k] \in Range(d)) => recs.out = d
            /\ ( /\ Get(recs.row, "waste_risk_score", 0) = 0
                 /\ ~Truthy(Get(recs.row, "perishable", 0))
                 /\ ~Lt(Get(recs.row, "sales_stock_ratio", FP), FP \div 2) )
               => recs.out = d

\* both kinds of call happen: a neutral row answered with the default, and a
\* row answered by rules only
DefaultOnlyWhenNoRuleWitness ==
    /\ recs.called /\ recs.impl = "top"
    /\ Get(recs.row, "waste_risk_score", 0) = 0
    /\ "perishable" \in DOMAIN recs.row /\ recs.row.perishable = 0
    /\ recs.out = <<"Monitor closely", "Continue normal operations">>

IsRolled(c) == pc[c] \in {"rolling", "ratio", "engineered", "scored"}
RollingCols(im) ==
    UNION {{SalesMeanCol(w), SalesStdCol(w), WasteMeanCol(w)} : w \in Range(WindowsOf(im))}

\* the position in table t of the stored row with identifier id
PosOf(t, id) == CHOOSE k \in 1..Len(t) : t[k].id = id
\* x is an observation of r's partition that is not after r: earlier date, or
\* the same date and not later in the supplied table t
NotAfter(t, x, r) ==
    /\ x.store_id = r.store_id /\ x.product = r.product
    /\ \/ x.date < r.date
       \/ x.date = r.date /\ PosOf(t, x.id) <= PosOf(t, r.id)
\* the position of r in its partition, in ascending date order
PartitionRank(t, r) == Cardinality({k \in 1..Len(t) : NotAfter(t, t[k], r)})
\* the last min(i, w) observations of r's partition up to r
LastObs(t, r, w) ==
    {k \in 1..Len(t) : NotAfter(t, t[k], r)
                         /\ PartitionRank(t, t[k]) > PartitionRank(t, r) - w}
RECURSIVE SumOver(_, _, _)
SumOver(t, col, S) ==
    IF S = {} THEN 0
    ELSE LET k == CHOOSE x \in S : TRUE IN t[k][col] + SumOver(t, col, S \ {k})
\* m is the mean of total over n observations, to the resolution of a cell
IsMeanOf(m, total, n) == 2 * Abs(m * n - total) <= n

\* C6: for every window w and every row, sales_rolling_mean_{w}d is the mean
\* of the sales of the last min(i, w) observations of the row's own
\* (store_id, product) partition in ascending date order; the first
\* observation's mean is its own sales and no rolling mean is missing
RollingMeanOfOwnPartition ==
    \A c \in Calls : IsRolled(c) =>
        \A i \in 1..Len(df[c]) : \A w \in Range(WindowsOf(impl[c])) :
            LET r    == df[c][i]
                rank == PartitionRank(arg[c], r)
                obs  == LastObs(arg[c], r, w)
                m    == r[SalesMeanCol(w)]
            IN  /\ ~IsNaN(m)
                /\ Cardinality(obs) = Min2(rank, w)
                /\ IsMeanOf(m, SumOver(arg[c], "sales", obs), Cardinality(obs))
                /\ rank = 1 => m = r.sales

\* sales 10, 20, 30 of one partition, supplied out of date order next to
\* other partitions, get 7-day means 10, 15, 20, and some partition has more
\* than 7 observations so that the 7-day window has dropped one
RollingMeanOfOwnPartitionWitness ==
    /\ pc[1] = "rolling" /\ impl[1] = "src"
    /\ \E i, j, k \in 1..Len(df[1]) :
           /\ df[1][i].product = "Bread" /\ df[1][j].product = "Bread"
           /\ df[1][k].product = "Bread"
           /\ df[1][i].sales = 10 * FP /\ df[1][i].sales_rolling_mean_7d = 10 * FP
           /\ df[1][j].sales = 20 * FP /\ df[1][j].sales_rolling_mean_7d = 15 * FP
           /\ df[1][k].sales = 30 * FP /\ df[1][k].sales_rolling_mean_7d = 20 * FP
    /\ \E i \in 1..Len(df[1]) :
           /\ PartitionRank(arg[1], df[1][i]) > 7
           /\ df[1][i].sales_rolling_mean_7d # df[1][i].sales_rolling_mean_14d

\* C7: after create_rolling_features the sales_rolling_std_{w}d of the first
\* observation of every partition is 0 for every window, and no rolling
\* column holds a missing value
FirstStdZeroNoMissing ==
    \A c \in Calls : IsRolled(c) =>
        \A i \in 1..Len(df[c]) :
            /\ \A col \in RollingCols(impl[c]) : ~IsNaN(df[c][i][col])
            /\ PartitionRank(arg[c], df[c][i]) = 1 =>
                   \A w \in Range(WindowsOf(impl[c])) : df[c][i][SalesStdCol(w)] = 0

\* a partition of a single observation next to a partition whose later
\* observations have a positive deviation
FirstStdZeroNoMissingWitness ==
    /\ pc[1] = "rolling"
    /\ \E i \in 1..Len(df[1]) :
           /\ PartitionRank(arg[1], df[1][i]) = 1
           /\ \A k \in 1..Len(arg[1]) :
                  NotAfter(arg[1], df[1][i], arg[1][k]) => arg[1][k].id = df[1][i].id
    /\ \E i \in 1..Len(df[1]) : df[1][i].sales_rolling_std_7d > 0

UniqueKeys(t) ==
    \A i, j \in 1..Len(t) :
        (t[i].store_id = t[j].store_id /\ t[i].product = t[j].product
            /\ t[i].date = t[j].date) => i = j
Reverse(t) == [k \in 1..Len(t) |-> t[Len(t) + 1 - k]]
Rotate(t) == IF t = <<>> THEN t ELSE Tail(t) \o <<Head(t)>>
\* the rows at odd positions, then the rows at even positions
Deal(t) ==
    LET n == Len(t)
        h == (n + 1) \div 2
    IN  [k \in 1..n |-> IF k <= h THEN t[2 * k - 1] ELSE t[2 * (k - h)]]
Shuffles(t) == {Reverse(t), Rotate(t), Deal(t), Reverse(Deal(t))}
\* what the rolling stage assigns to each key
RollingByKey(im, t) ==
    {[col \in {"store_id", "product", "date"} \cup RollingCols(im) |-> t[i][col]]
        : i \in 1..Len(t)}
RollingOf(im, t) ==
    IF im = "src" THEN create_rolling_features(create_temporal_features(Copy(t)))
    ELSE create_rolling_features_top(create_temporal_features_top(t))

\* C8: for a table with at most one row per (store_id, product, date) key,
\* every reordering of its rows gets the same rolling means and deviations
\* assigned to each key
RollingOrderIndependent ==
    \A c \in Calls : (pc[c] = "rolling" /\ UniqueKeys(arg[c])) =>
        \A t \in Shuffles(arg[c]) :
            RollingByKey(impl[c], RollingOf(impl[c], t)) = RollingByKey(impl[c], df[c])

\* a table with unique keys that is supplied out of key order and whose
\* reorderings differ from it
RollingOrderIndependentWitness ==
    /\ pc[1] = "rolling" /\ UniqueKeys(arg[1]) /\ Len(arg[1]) >= 3
    /\ \E i \in 1..(Len(arg[1]) - 1) : KeyLess(arg[1][i + 1], arg[1][i])
    /\ \A t \in Shuffles(arg[1]) : t # arg[1]
    /\ \E i \in 1..Len(df[1]) : df[1][i].sales_rolling_std_7d > 0

\* C9: two runs of the pipeline on the same input, one after the other or
\* interleaved, on the same instances, have identical tables at every stage
\* and identical responses; the instances keep no state from a call
PipelineRepeatable ==
    /\ inst = InitInst
    /\ \A c1, c2 \in Calls :
           (impl[c1] = impl[c2] /\ arg[c1] = arg[c2] /\ pc[c1] = pc[c2]) =>
               (df[c1] = df[c2] /\ response[c1] = response[c2])

\* both calls have scored the same non-empty input
PipelineRepeatableWitness ==
    /\ pc[1] = "responded" /\ pc[2] = "scored"
    /\ impl[1] = impl[2] /\ arg[1] = arg[2] /\ Len(arg[1]) >= 2
    /\ response[1].status = 200

IsRatioed(c) == pc[c] \in {"ratio", "engineered", "scored"}

\* C10: a row with stock = 0 gets finite sales_stock_ratio and
\* waste_efficiency values: the divisor stock + epsilon is not zero
ZeroStockFiniteRatios ==
    \A c \in Calls : IsRatioed(c) =>
        \A i \in 1..Len(df[c]) : df[c][i].stock = 0 =>
            /\ EpsDen(df[c][i].stock) # 0
            /\ IsFinite(df[c][i].sales_stock_ratio)
            /\ IsFinite(df[c][i].waste_efficiency)

\* a row with no stock and positive sales has been through the ratio stage
ZeroStockFiniteRatiosWitness ==
    /\ pc[1] = "ratio"
    /\ \E i \in 1..Len(df[1]) :
           /\ df[1][i].stock = 0 /\ df[1][i].sales > 0
           /\ df[1][i].sales_stock_ratio > 1000 * FP

\* the raw columns are all there and no value the scoring reads is missing
RawPresent(t) ==
    /\ t # <<>>
    /\ SalesDataCols \subseteq Columns(t)
    /\ \A i \in 1..Len(t) :
           \A col \in {"sales", "stock", "waste", "waste_percentage", "perishable"} :
               ~IsNaN(t[i][col])
\* every component score, the composite and the level of every row are there
Populated(im, t) ==
    \A i \in 1..Len(t) :
        /\ \A col \in ScoreCols(im) \cup {"waste_risk_score"} :
               col \in DOMAIN t[i] /\ ~IsNaN(t[i][col])
        /\ "risk_level" \in DOMAIN t[i] /\ t[i].risk_level \in Range(Labels)

\* C11: whichever of the rolling columns are absent from a table that has the
\* raw columns, the risk scoring call returns, and the returned table has
\* every component score, waste_risk_score and risk_level populated
RiskScoringNeverRaises ==
    [][\A w \in WindowLists :
           (CallOp(1, "risk", w) /\ RawPresent(arg[1])) =>
               (pc'[1] = "returned" /\ Populated(impl[1], df'[1]))]_vars

TrendCol(im) == IF im = "src" THEN "score_trend" ELSE "score_sales_trend"
StockCol(im) == IF im = "src" THEN "score_stock" ELSE "score_stock_level"
HistCol(im) == IF im = "src" THEN "score_hist" ELSE "score_historical_waste"

\* C12: a risk scoring call that returns gives every row the default of each
\* component whose rolling columns are absent: sales trend 50 unless both
\* rolling sales means are present, stock level 50 without the 7-day mean,
\* historical waste 0 without waste_rolling_mean_14d
ComponentDefaults ==
    [][\A w \in WindowLists :
           (CallOp(1, "risk", w) /\ pc'[1] = "returned") =>
               \A i \in 1..Len(df'[1]) :
                   LET cols == Columns(arg[1])
                       r    == df'[1][i]
                   IN  /\ ~({"sales_rolling_mean_7d", "sales_rolling_mean_14d"} \subseteq cols)
                              => r[TrendCol(impl[1])] = 50 * FP
                       /\ "sales_rolling_mean_7d" \notin cols
                              => r[StockCol(impl[1])] = 50 * FP
                       /\ "waste_rolling_mean_14d" \notin cols
                              => r[HistCol(impl[1])] = 0]_vars

CalendarCols(im) ==
    {"month", "is_weekend", "day_sin", "day_cos", "month_sin", "month_cos"}
    \cup (IF im = "src" THEN {"day_of_week"} ELSE {"day_of_year", "week_of_year"})
RatioColNames == {"sales_stock_ratio", "sales_deviation_7d", "waste_efficiency"}
AggregateCols(im) ==
    IF im = "src"
    THEN {"prod_sales_mean", "prod_sales_std", "prod_waste_mean",
          "store_sales_mean", "store_waste_mean"}
    ELSE {"product_sales_mean", "product_sales_std", "product_waste_mean",
          "store_sales_mean", "store_waste_mean"}
FeatureCols(im) ==
    (CalendarCols(im) \ {"day_of_week"}) \cup RollingCols(im) \cup RatioColNames
    \cup AggregateCols(im)
AllFamilies(im, t) ==
    t # <<>> /\ (CalendarCols(im) \cup FeatureCols(im)) \subseteq Columns(t)
MandatoryCols == {"sales", "stock", "waste", "store_id", "product", "date"}
Malformed(t) ==
    \/ ~(MandatoryCols \subseteq Columns(t))
    \/ \E i \in 1..Len(t) : ~Parseable(t[i].date)
\* the step is a call of engineer_features by caller c; engineer_features has
\* no windows parameter, so one value of it stands for all
CallEngineer(c) == CallOp(c, "engineer", Windows)
\* a call of engineer_features ends in one of two ways: it raises and returns
\* nothing, or it returns a table with all four feature families
RaisesOrAllFamilies(c) ==
    \/ pc'[c] = "raised" /\ df'[c] = <<>>
    \/ pc'[c] = "returned" /\ AllFamilies(impl[c], df'[c])

\* C13 (as amended): on a non-empty table engineer_features either raises, as
\* it does on an unparseable date or a missing mandatory raw column, or
\* returns a table that carries all four feature families
NoPartialFeatures ==
    [][(CallEngineer(1) /\ arg[1] # <<>>) =>
           /\ RaisesOrAllFamilies(1)
           /\ Malformed(arg[1]) => pc'[1] = "raised"]_vars

\* engineer_features has returned all four families for a table of raw columns
NoPartialFeaturesWitness ==
    /\ pc[1] = "returned"
    /\ Columns(arg[1]) \cap FeatureCols(impl[1]) = {}
    /\ AllFamilies(impl[1], df[1])

\* C13 (as stated): every call of engineer_features, on any table, either
\* raises or returns a table that carries all four feature families
NoPartialFeaturesAnyTable ==
    [][CallEngineer(1) => RaisesOrAllFamilies(1)]_vars

StageOrder == <<"fetched", "temporal", "rolling", "ratio", "engineered">>
StageBefore(p) == StageOrder[(CHOOSE k \in 2..Len(StageOrder) : StageOrder[k] = p) - 1]
SevenDayCols == {"sales_rolling_mean_7d", "sales_rolling_std_7d", "waste_rolling_mean_7d"}

\* C14: within engineer_features the stages run in the order calendar,
\* rolling, ratio, aggregate: a stage completes only from the state its
\* predecessor left, the ratio stage reads a table that already has the
\* 7-day rolling columns and so adds sales_deviation_7d, and the aggregate
\* stage completes the table, after which no feature stage runs again
StagesInOrder ==
    [][\A c \in DOMAIN pc :
           /\ (pc'[c] # pc[c] /\ pc'[c] \in {"temporal", "rolling", "ratio", "engineered"})
                  => pc[c] = StageBefore(pc'[c])
           /\ (pc'[c] # pc[c] /\ pc'[c] = "rolling")
                  => (CalendarCols(impl[c]) \ {"day_of_week"}) \subseteq Columns(df[c])
           /\ (pc'[c] # pc[c] /\ pc'[c] = "ratio")
                  => /\ RollingCols(impl[c]) \subseteq Columns(df[c])
                     /\ SevenDayCols \subseteq Columns(df[c])
                     /\ RatioColNames \subseteq Columns(df'[c])
           /\ (pc'[c] # pc[c] /\ pc'[c] = "engineered")
                  => /\ RatioColNames \subseteq Columns(df[c])
                     /\ Columns(df[c]) \cap AggregateCols(impl[c]) = {}
                     /\ AllFamilies(impl[c], df'[c])
           /\ pc[c] = "engineered"
                  => pc'[c] \in {"engineered", "scored", "raised"}]_vars

\* a call has run all four stages and holds the engineered table
StagesInOrderWitness ==
    /\ pc[1] = "engineered"
    /\ AllFamilies(impl[1], df[1])
    /\ \E i \in 1..Len(df[1]) : df[1][i].sales_deviation_7d # 0

FeatureList(im) == IF im = "src" THEN get_feature_columns ELSE get_feature_columns_top

\* C15: every name listed by get_feature_columns() is a column of the table
\* engineer_features returns for a non-empty table of sales observations
FeatureColumnsPresent ==
    \A c \in DOMAIN pc :
        (pc[c] = "engineered" /\ df[c] # <<>>)
            => Range(FeatureList(impl[c])) \subseteq Columns(df[c])

\* an engineered, non-empty table that was built from the stored observations
FeatureColumnsPresentWitness ==
    /\ pc[1] = "engineered"
    /\ Len(df[1]) > 1
    /\ SalesDataCols \subseteq Columns(arg[1])
    /\ impl[1] = "src"

\* the raw columns of every row of table t have in table out the values they
\* have in t, rows being matched by their identifier
RawPreserved(t, out) ==
    /\ Len(out) = Len(t)
    /\ \A i \in 1..Len(t) : \E j \in 1..Len(out) :
           /\ out[j].id = t[i].id
           /\ \A col \in SalesDataCols \cap Columns(t) : out[j][col] = t[i][col]

\* C16: the table engineer_features returns has, in every raw column of every
\* row, the value the caller supplied, a supplied day_of_week and missing
\* values included
EngineerKeepsRawValues ==
    [][(CallEngineer(1) /\ pc'[1] = "returned") => RawPreserved(arg[1], df'[1])]_vars

\* the five component scores of a scored row, in the order current waste,
\* historical waste, sales trend, stock level, perishability
FiveScores(im, r) ==
    IF im = "src"
    THEN <<r.score_current, r.score_hist, r.score_trend, r.score_stock,
           IF r.perishable # 0 THEN 100 * FP ELSE 0>>
    ELSE <<r.score_current_waste, r.score_historical_waste, r.score_sales_trend,
           r.score_stock_level, IF r.perishable # 0 THEN 100 * FP ELSE 0>>
FiveWeights(im) == IF im = "src" THEN weights ELSE SubSeq(risk_weights, 1, 5)
FiveSum(im, r) == SeqSum([k \in 1..5 |-> FiveScores(im, r)[k] * FiveWeights(im)[k]])
\* the term of the sum that is none of the five: the constant seasonality
\* score of the top-level implementation with its weight, nothing in src/src
SixthTerm(im) == IF im = "src" THEN 0 ELSE 50 * FP * risk_weights[6]
SixthWeight(im) == IF im = "src" THEN 0 ELSE risk_weights[6]

\* C17 (as amended): waste_risk_score is the weighted sum of the five
\* component scores, perishability counting 100 for a perishable row and 0
\* otherwise, to which the top-level implementation adds a constant
\* seasonality score of 50 with its own weight; the weights of all the terms
\* of an implementation sum to 1.0
WeightedSumOfComponents ==
    \A c \in Calls : IsScored(c) =>
        /\ SeqSum(FiveWeights(impl[c])) + SixthWeight(impl[c]) = FP
        /\ \A i \in 1..Len(df[c]) :
               df[c][i].waste_risk_score = FiveSum(impl[c], df[c][i]) + SixthTerm(impl[c])

\* a scored perishable row of the top-level implementation whose five
\* components are not all zero
WeightedSumOfComponentsWitness ==
    /\ IsScored(1) /\ impl[1] = "top" /\ df[1] # <<>>
    /\ df[1][1].perishable = 1
    /\ df[1][1].score_perishability = 100 * FP
    /\ df[1][1].score_current_waste > 0
    /\ df[1][1].waste_risk_score > FiveSum("top", df[1][1])

\* C17 (as stated): waste_risk_score is the weighted sum of exactly the five
\* component scores, with five weights that sum to 1.0, and nothing else
FiveTermSum ==
    \A c \in Calls : IsScored(c) =>
        /\ SeqSum(FiveWeights(impl[c])) = FP
        /\ \A i \in 1..Len(df[c]) :
               df[c][i].waste_risk_score = FiveSum(impl[c], df[c][i])

\* the historical-waste score of a scored row
HistScore(im, r) == IF im = "src" THEN r.score_hist ELSE r.score_historical_waste
\* score s is k * waste_rolling_mean_14d / (stock + epsilon) * 100 clamped
\* into [0, 100], to within one unit of the last decimal place kept; epsilon
\* decides the value only when stock is zero
IsClampedShare(s, k, r) ==
    IF r.stock = 0
    THEN s = (IF r.waste_rolling_mean_14d > 0 THEN 100 * FP ELSE 0)
    ELSE Abs(s - Min2(100 * FP, (k * r.waste_rolling_mean_14d * 100 * FP) \div r.stock)) <= 1
\* src/src scales the share by 5, so that a share of 20% is the maximum
HistFactor(im) == IF im = "src" THEN 5 ELSE 1

\* C18 (as amended): with waste_rolling_mean_14d present the historical-waste
\* score is waste_rolling_mean_14d / (stock + epsilon) * 100 clamped into
\* [0, 100] in the top-level implementation, and five times that share clamped
\* into [0, 100] in src/src: a 14-day average waste of 20% of stock scores 20
\* at top level and 100 in src/src
HistoricalWasteScore ==
    \A c \in Calls : (IsScored(c) /\ "waste_rolling_mean_14d" \in Columns(df[c])) =>
        \A i \in 1..Len(df[c]) :
            IsClampedShare(HistScore(impl[c], df[c][i]), HistFactor(impl[c]), df[c][i])

\* a scored row whose 14-day average waste is 20% of its stock, scored 20 by
\* the top-level implementation
HistoricalWasteScoreWitness ==
    /\ IsScored(1) /\ impl[1] = "top" /\ df[1] # <<>>
    /\ df[1][1].stock > 0
    /\ 5 * df[1][1].waste_rolling_mean_14d = df[1][1].stock
    /\ df[1][1].score_historical_waste = 20 * FP

\* C18 (as stated): with waste_rolling_mean_14d present the historical-waste
\* score of every row is waste_rolling_mean_14d / (stock + epsilon) * 100
\* clamped into [0, 100], whichever implementation scored it
HistoricalWasteUnscaled ==
    \A c \in Calls : (IsScored(c) /\ "waste_rolling_mean_14d" \in Columns(df[c])) =>
        \A i \in 1..Len(df[c]) : IsClampedShare(HistScore(impl[c], df[c][i]), 1, df[c][i])

\* C19: no feature or scoring operation changes the table object it is
\* given: after a call, whether it returned or raised, the caller's table
\* has the columns and values it had before
CallerTableUntouched ==
    [][\A op \in Ops, w \in WindowLists : CallOp(1, op, w) => arg'[1] = arg[1]]_vars

\* the step is a call of create_ratio_features by caller c, which has no
\* windows parameter
CallRatio(c) == CallOp(c, "ratio", Windows)

RowsOf(t, key, r) == {k \in 1..Len(t) : t[k][key] = r[key]}
RECURSIVE SumSqOver(_, _, _)
SumSqOver(t, col, S) ==
    IF S = {} THEN 0
    ELSE LET k == CHOOSE x \in S : TRUE
         IN  t[k][col] * t[k][col] + SumSqOver(t, col, S \ {k})
\* s is the sample standard deviation (n - 1 in the divisor) of the values of
\* col over the rows S of t, to within one unit of a cell; missing when S has
\* fewer than two rows
IsStdOver(s, t, col, S) ==
    LET n == Cardinality(S)
        q == (n * SumSqOver(t, col, S) - SumOver(t, col, S) * SumOver(t, col, S))
                 \div (n * (n - 1))
    IN  IF n < 2 THEN IsNaN(s)
        ELSE /\ ~IsNaN(s) /\ s >= 0
             /\ q <= (s + 1) * (s + 1)
             /\ (s = 0 \/ (s - 1) * (s - 1) <= q + 1)
ProdCol(im, stat) == (IF im = "src" THEN "prod_" ELSE "product_") \o stat

\* C21: in the table engineer_features returns, every row carries the mean
\* and the sample standard deviation of sales and the mean of
\* waste_percentage over all the rows of its product, whatever their store
\* and date, and the means of sales and of waste_percentage over all the rows
\* of its store; the standard deviation of a product with a single row is
\* missing, not 0
AggregatesOverWholeTable ==
    \A c \in Calls : pc[c] = "engineered" =>
        \A i \in 1..Len(df[c]) :
            LET t  == df[c]
                r  == t[i]
                P  == RowsOf(t, "product", r)
                S  == RowsOf(t, "store_id", r)
                im == impl[c]
            IN  /\ IsMeanOf(r[ProdCol(im, "sales_mean")], SumOver(t, "sales", P),
                            Cardinality(P))
                /\ IsStdOver(r[ProdCol(im, "sales_std")], t, "sales", P)
                /\ IsMeanOf(r[ProdCol(im, "waste_mean")],
                            SumOver(t, "waste_percentage", P), Cardinality(P))
                /\ IsMeanOf(r.store_sales_mean, SumOver(t, "sales", S), Cardinality(S))
                /\ IsMeanOf(r.store_waste_mean, SumOver(t, "waste_percentage", S),
                            Cardinality(S))

\* an engineered table in which one product has rows in two stores with
\* different sales, and another product has a single row and a missing
\* standard deviation
AggregatesOverWholeTableWitness ==
    /\ pc[1] = "engineered"
    /\ \E i, j, k \in 1..Len(df[1]) :
           /\ df[1][i].product = df[1][j].product
           /\ df[1][i].store_id # df[1][j].store_id
           /\ df[1][i].sales # df[1][j].sales
           /\ df[1][i][ProdCol(impl[1], "sales_std")] > 0
           /\ RowsOf(df[1], "product", df[1][k]) = {k}
           /\ IsNaN(df[1][k][ProdCol(impl[1], "sales_std")])

\* the step is a call of create_temporal_features by caller c, which has no
\* windows parameter
CallTemporal(c) == CallOp(c, "temporal", Windows)

\* C22: the calendar encoder gives every row is_weekend 1 when the
\* day_of_week supplied in that row is 5 or 6, and 0 otherwise
WeekendFromSuppliedDay ==
    [][(CallTemporal(1) /\ pc'[1] = "returned" /\ "day_of_week" \in Columns(arg[1])) =>
           \A i \in 1..Len(arg[1]) :
               df'[1][i].is_weekend = (IF arg[1][i].day_of_week >= 5 THEN 1 ELSE 0)]_vars

UrgentPair(im) ==
    IF im = "src" THEN <<"URGENT: Markdown 30% immediately", "Halve next supplier order">>
    ELSE <<"URGENT: Consider immediate markdown (20-30% off)",
           "Reduce next order quantity by 30-50%">>
ModeratePair(im) ==
    IF im = "src" THEN <<"Apply 15% discount", "Reduce order quantity">>
    ELSE <<"Apply promotional discount (10-15% off)",
           "Reduce next order quantity by 15-25%">>
HighThreshold(im) == IF im = "src" THEN Score(70) ELSE Score(60)
\* some line of the pair is in the list
Mentions(out, pair) == Range(out) \cap Range(pair) # {}
\* the pair is the beginning of the list, and its lines appear nowhere else
LeadsWith(out, pair) ==
    /\ Len(out) >= 2 /\ SubSeq(out, 1, 2) = pair
    /\ \A k \in 3..Len(out) : out[k] \notin Range(pair)
\* the list out is what the claim says of a row with this score
PairsByScore(im, score, out) ==
    /\ ~(Mentions(out, UrgentPair(im)) /\ Mentions(out, ModeratePair(im)))
    /\ Mentions(out, UrgentPair(im)) <=> score > HighThreshold(im)
    /\ Mentions(out, ModeratePair(im)) <=> (Score(40) < score /\ score <= HighThreshold(im))
    /\ Mentions(out, UrgentPair(im)) => LeadsWith(out, UrgentPair(im))
    /\ Mentions(out, ModeratePair(im)) => LeadsWith(out, ModeratePair(im))

\* C23: a list of recommendations holds the urgent pair exactly when the
\* score is above the high threshold of the implementation (70 in src/src, 60
\* at top level), the moderate pair exactly when the score is above 40 and
\* not above that threshold, and neither at 40 or below; never both, and the
\* pair it holds is its first two lines
UrgentOrModeratePair ==
    /\ (recs.called /\ "waste_risk_score" \in DOMAIN recs.row
            /\ ~IsNaN(recs.row.waste_risk_score))
           => PairsByScore(recs.impl, recs.row.waste_risk_score, recs.out)
    /\ \A c \in Calls : (pc[c] = "responded" /\ response[c].status = 200) =>
           \A i \in 1..Len(df[c]) :
               ~IsNaN(df[c][i].waste_risk_score) =>
                   PairsByScore(impl[c], df[c][i].waste_risk_score,
                                df[c][i].recommendations)

\* a row scored above 60 and not above 70, for which src/src has answered
\* with the moderate pair followed by the inspection note
UrgentOrModeratePairWitness ==
    /\ recs.called /\ recs.impl = "src"
    /\ "waste_risk_score" \in DOMAIN recs.row
    /\ recs.row.waste_risk_score > Score(60)
    /\ recs.row.waste_risk_score <= Score(70)
    /\ LeadsWith(recs.out, ModeratePair("src"))
    /\ Len(recs.out) = 3

\* row a does not come after row b in ascending (store_id, product, date)
\* order
KeyAtMost(a, b) ==
    IF a.store_id # b.store_id THEN a.store_id < b.store_id
    ELSE IF a.product # b.product THEN ProductRank(a.product) < ProductRank(b.product)
    ELSE a.date <= b.date
Ascending(t) == \A i, j \in 1..Len(t) : i < j => KeyAtMost(t[i], t[j])

\* C24: from the rolling stage on, and so in the table engineer_features
\* returns, the rows are in ascending (store_id, product, date) order,
\* whatever the order of the rows supplied
EngineeredRowsSorted ==
    \A c \in Calls : pc[c] \in {"rolling", "ratio", "engineered"} => Ascending(df[c])

\* an engineered table of several stores and products whose rows were
\* supplied out of key order
EngineeredRowsSortedWitness ==
    /\ pc[1] = "engineered" /\ ~Ascending(arg[1])
    /\ \E i, j, k \in 1..Len(df[1]) :
           /\ df[1][i].store_id # df[1][j].store_id
           /\ df[1][i].product # df[1][k].product
           /\ df[1][i].store_id = df[1][k].store_id

\* C25: a detector starts untrained; predict on an untrained detector raises
\* ValueError and returns nothing; is_trained turns true only in a train that
\* completed or a load that found the file, and never turns false again; a
\* load from a path without a file returns False, and a save of an untrained
\* detector writes nothing, and neither changes the detector
DetectorLifecycle ==
    /\ ~detector.is_trained
    /\ [][/\ (last'.op = "predict" /\ ~detector.is_trained)
                 => (last'.raised = "ValueError" /\ last'.value = "None")
          /\ detector.is_trained => detector'.is_trained
          /\ (~detector.is_trained /\ detector'.is_trained)
                 => \/ last'.op = "train" /\ last'.raised = ""
                    \/ last'.op = "load" /\ disk[last'.path].exists
          /\ (last'.op = "load" /\ ~disk[last'.path].exists)
                 => /\ last'.value = "False" /\ last'.raised = ""
                    /\ detector' = detector /\ disk' = disk
          /\ (last'.op \in {"save", "save_model"} /\ ~detector.is_trained)
                 => (disk' = disk /\ detector' = detector)]_vars

\* after a train that raised, and with no model file at any path, predict
\* has raised ValueError on the still untrained detector
DetectorLifecycleWitness ==
    /\ last.op = "predict" /\ last.raised = "ValueError"
    /\ ~detector.is_trained
    /\ detector.feature_cols # <<>>
    /\ \A p \in Paths : ~disk[p].exists

\* C26: whichever way initialize_system ends, the anomaly detector is
\* trained: with a saved model, with stored sales data and no saved model,
\* and with neither
StartupEndsTrained == pc[1] \in {"up", "crashed"} => detector.is_trained

\* table out has exactly one row for each row of table t, rows being told
\* apart by their identifier
OneRowEach(t, out) ==
    /\ Len(out) = Len(t)
    /\ \A i \in 1..Len(t) : Cardinality({j \in 1..Len(out) : out[j].id = t[i].id}) = 1

\* C27: at every stage of engineer_features, and in the table it returns,
\* there is exactly one row for each row of the input, also when the input
\* repeats a (store_id, product, date) key
OneOutputRowPerInputRow ==
    \A c \in Calls :
        pc[c] \in {"temporal", "rolling", "ratio", "engineered"} => OneRowEach(arg[c], df[c])

\* an engineered table whose input had the same key in several rows, of
\* several products and stores
OneOutputRowPerInputRowWitness ==
    /\ pc[1] = "engineered" /\ ~UniqueKeys(arg[1])
    /\ Len(arg[1]) >= 4
    /\ \E i, j \in 1..Len(arg[1]) : arg[1][i].product # arg[1][j].product

\* the value the sales-trend score has when the 7-day and 14-day means are
\* equal
NoChange(im) == IF im = "src" THEN 0 ELSE 50 * FP

\* C28: in each of the first 7 observations of a (store_id, product)
\* partition the 7-day and the 14-day mean of sales are equal, and the scored
\* row has the no-change value of the sales-trend score (0 in calculate_risk,
\* 50 in calculate_waste_risk); a trend score other than that occurs only
\* from the 8th observation on
EarlyRowsHaveNoTrend ==
    \A c \in Calls :
        /\ pc[c] \in {"rolling", "ratio", "engineered"} \/ IsScored(c) =>
               \A i \in 1..Len(df[c]) :
                   PartitionRank(arg[c], df[c][i]) <= 7
                       => df[c][i].sales_rolling_mean_7d = df[c][i].sales_rolling_mean_14d
        /\ IsScored(c) =>
               \A i \in 1..Len(df[c]) :
                   /\ PartitionRank(arg[c], df[c][i]) <= 7
                          => df[c][i][TrendCol(impl[c])] = NoChange(impl[c])
                   /\ df[c][i][TrendCol(impl[c])] # NoChange(impl[c])
                          => PartitionRank(arg[c], df[c][i]) >= 8

\* a scored partition whose sales differ among its first 7 observations and
\* whose 8th observation has a declining trend and a raised trend score
EarlyRowsHaveNoTrendWitness ==
    /\ IsScored(1)
    /\ \E i, j, k \in 1..Len(df[1]) :
           /\ SameGroup(df[1][i], df[1][j]) /\ SameGroup(df[1][i], df[1][k])
           /\ PartitionRank(arg[1], df[1][i]) <= 7
           /\ PartitionRank(arg[1], df[1][j]) <= 7
           /\ df[1][i].sales # df[1][j].sales
           /\ PartitionRank(arg[1], df[1][k]) = 8
           /\ df[1][k].sales_rolling_mean_7d < df[1][k].sales_rolling_mean_14d
           /\ df[1][k][TrendCol(impl[1])] > NoChange(impl[1])
====
